---- MODULE Spec2Model ----
(***************************************************************************)
(* Model of the e-mail base analysis repository: the batch CLI             *)
(* (src/analise.py) and the interactive dashboard                          *)
(* (src/sistema_analise_app.py).                                           *)
(*                                                                         *)
(* Text is modelled as a sequence of characters, each character a          *)
(* one-character string; "\n" is the line feed.  A character outside       *)
(* ASCII is written by its code point, e.g. "U+00E3" for a-tilde.          *)
(***************************************************************************)
EXTENDS Integers, Sequences, FiniteSets, TLC

VARIABLES
    em,                 \* one e-mail value and the result of the call made on it
    rg,                 \* one region text and the result of extract_brazil_uf
    bpc,                \* position of the batch run:
                        \* "start" | "reading" | "done" | "failed"
    input_file,         \* the input the batch run was started on, or NoInput
    raised,             \* the exception that ended the batch run, or NoError
    out_dir,            \* the output directory before the run and now
    total_rows, missing_emails, invalid_emails, rows_with_trimmed_email,
    duplicate_exact_rows, unique_emails, domain_counter, repeated_email_counter,
    row_count_by_document, unique_email_count_by_document,
    unique_email_count_by_taxpayer, invalid_rows, duplicate_rows,
    seen_exact_rows,
    treated,            \* rows written to dados_tratados.csv, in order
    summary,            \* the AnalysisSummary returned, or NoSummary
    reports,            \* the report files written, or NoReports
    df,                 \* the table read from the upload, or NoTable
    mapping,            \* role -> selected column
    result,             \* what build_analysis returned, or NoResult
    upload,             \* the file in the uploader widget, or NoUpload
    session_filters,    \* st.session_state["dashboard_filters"], or NoFilters
    submitted,          \* the form button the last render handled, and the
                        \* form's values
    filtered,           \* the displayed subset: indices of the rows of base
    exports,            \* the tables the export tab offers, or NoExports
    ui                  \* how the last render of main ended

batch_vars ==
    << bpc, input_file, raised, out_dir, total_rows, missing_emails, invalid_emails, rows_with_trimmed_email,
       duplicate_exact_rows, unique_emails, domain_counter, repeated_email_counter,
       row_count_by_document, unique_email_count_by_document,
       unique_email_count_by_taxpayer, invalid_rows, duplicate_rows,
       seen_exact_rows, treated, summary, reports >>

app_vars == << df, mapping, result >>

dash_vars == << upload, session_filters, submitted, filtered, exports, ui >>

vars == << em, rg, batch_vars, app_vars, dash_vars >>

-----------------------------------------------------------------------------
(* Characters and the string methods the code calls                        *)

LowerLetters ==
    << "a", "b", "c", "d", "e", "f", "g", "h", "i", "j", "k", "l", "m",
       "n", "o", "p", "q", "r", "s", "t", "u", "v", "w", "x", "y", "z" >>

UpperLetters ==
    << "A", "B", "C", "D", "E", "F", "G", "H", "I", "J", "K", "L", "M",
       "N", "O", "P", "Q", "R", "S", "T", "U", "V", "W", "X", "Y", "Z" >>

Range(f) == { f[i] : i \in DOMAIN f }

AsciiLower == Range(LowerLetters)
AsciiUpper == Range(UpperLetters)
AsciiLetters == AsciiLower \cup AsciiUpper
AsciiDigits == { "0", "1", "2", "3", "4", "5", "6", "7", "8", "9" }

\* str.strip() and the regex class \s remove/match these
Whitespace == { " ", "\t", "\n", "\r" }

IndexIn(c, tuple) == CHOOSE i \in DOMAIN tuple : tuple[i] = c

\* str.lower() on one character
lower_char(c) ==
    IF c \in AsciiUpper THEN LowerLetters[IndexIn(c, UpperLetters)]
    ELSE IF c = "U+00C3" THEN "U+00E3"
    ELSE c

\* str.upper() on one character
upper_char(c) ==
    IF c \in AsciiLower THEN UpperLetters[IndexIn(c, LowerLetters)]
    ELSE IF c = "U+00E3" THEN "U+00C3"
    ELSE c

\* a function with domain 1..n as the sequence it is (TLC otherwise keeps the
\* constructor unevaluated and evaluates it again at every use)
AsSeq(f) == f \o << >>

str_lower(s) == AsSeq([ i \in 1..Len(s) |-> lower_char(s[i]) ])
str_upper(s) == AsSeq([ i \in 1..Len(s) |-> upper_char(s[i]) ])

RECURSIVE str_lstrip_set(_, _)
str_lstrip_set(s, chars) ==
    IF s # << >> /\ Head(s) \in chars THEN str_lstrip_set(Tail(s), chars) ELSE s

RECURSIVE str_rstrip_set(_, _)
str_rstrip_set(s, chars) ==
    IF s # << >> /\ s[Len(s)] \in chars
    THEN str_rstrip_set(SubSeq(s, 1, Len(s) - 1), chars)
    ELSE s

\* str.strip(): whitespace off both ends
str_strip(s) == str_rstrip_set(str_lstrip_set(s, Whitespace), Whitespace)

\* str.rstrip(","): trailing commas only
str_rstrip_comma(s) == str_rstrip_set(s, { "," })

\* the characters of the model in code point order: Python compares strings
\* character by character, by code point
CodePointOrder ==
    << "\t", "\n", "\r", " ", "%", "(", ")", "+", ",", "-", ".", "/", "0",
       "1", "2", "3", "4", "5", "6", "7", "8", "9", "@", "A", "B", "C",
       "D", "E", "F", "G", "H", "I", "J", "K", "L", "M", "N", "O", "P",
       "Q", "R", "S", "T", "U", "V", "W", "X", "Y", "Z", "_", "a", "b",
       "c", "d", "e", "f", "g", "h", "i", "j", "k", "l", "m", "n", "o",
       "p", "q", "r", "s", "t", "u", "v", "w", "x", "y", "z", "~", "U+00C3",
       "U+00E3", "U+2013" >>

code_point(c) == CHOOSE i \in 1..Len(CodePointOrder) : CodePointOrder[i] = c

\* a < b for two strings
RECURSIVE str_less(_, _)
str_less(a, b) ==
    IF b = << >> THEN FALSE
    ELSE IF a = << >> THEN TRUE
    ELSE IF Head(a) = Head(b) THEN str_less(Tail(a), Tail(b))
    ELSE code_point(Head(a)) < code_point(Head(b))

Contains(s, c) == \E i \in 1..Len(s) : s[i] = c

FirstIndex(s, c) == CHOOSE i \in 1..Len(s) : s[i] = c /\ \A j \in 1..(i - 1) : s[j] # c

\* s.split(c, 1)[0] and s.split(c, 1)[1] for a string that holds c
BeforeFirst(s, c) == SubSeq(s, 1, FirstIndex(s, c) - 1)
AfterFirst(s, c) == SubSeq(s, FirstIndex(s, c) + 1, Len(s))

-----------------------------------------------------------------------------
(* E-mail normalisation and validation                                     *)

\* [A-Za-z0-9._%+\-]
RegexLocalClass == AsciiLetters \cup AsciiDigits \cup { ".", "_", "%", "+", "-" }
\* [A-Za-z0-9.\-]
RegexDomainClass == AsciiLetters \cup AsciiDigits \cup { ".", "-" }

\* Python's "$" (no MULTILINE): at the end of the string, or just before a
\* line feed that is the string's last character.  The set of indexes at
\* which the matched text may end.
RegexDollarEnds(s) ==
    { Len(s) } \cup (IF s # << >> /\ s[Len(s)] = "\n" THEN { Len(s) - 1 } ELSE {})

\* EMAIL_REGEX.match(s): ^[local]+@[domain]+\.[A-Za-z]{2,}$
EMAIL_REGEX_match(s) ==
    \E at \in 2..Len(s) : \E dot \in (at + 2)..Len(s) : \E end \in RegexDollarEnds(s) :
        /\ s[at] = "@"
        /\ \A i \in 1..(at - 1) : s[i] \in RegexLocalClass
        /\ s[dot] = "."
        /\ \A i \in (at + 1)..(dot - 1) : s[i] \in RegexDomainClass
        /\ end - dot >= 2
        /\ \A i \in (dot + 1)..end : s[i] \in AsciiLetters

\* A cell the CSV reader left absent (a short row): Python's None
None == << "<None>" >>

\* (value or "").strip()
normalize_text(value) == IF value = None THEN << >> ELSE str_strip(value)

\* a variant of normalize_email that keeps the letter case
normalize_email_keep_case(value) == normalize_text(value)

\* normalize_text(value).lower()
normalize_email(value) == str_lower(normalize_text(value))

is_valid_email(email) == EMAIL_REGEX_match(email)

\* a variant of treat_email that takes every non-empty e-mail as valid
treat_email_no_format_check(cell) ==
    LET raw_email   == IF cell = None THEN << >> ELSE cell
        clean_email == normalize_email(raw_email)
    IN  [ raw_email |-> raw_email,
          clean_email |-> clean_email,
          trimmed |-> raw_email # str_strip(raw_email),
          email_is_valid |-> clean_email # << >> ]

\* analyze, lines 86-101, the e-mail cell of one row: raw_email (row.get(..) or ""),
\* clean_email, the trimmed flag and email_is_valid
treat_email(cell) ==
    LET raw_email   == IF cell = None THEN << >> ELSE cell
        clean_email == normalize_email(raw_email)
    IN  [ raw_email |-> raw_email,
          clean_email |-> clean_email,
          trimmed |-> raw_email # str_strip(raw_email),
          email_is_valid |-> IF clean_email = << >> THEN FALSE
                             ELSE is_valid_email(clean_email) ]

-----------------------------------------------------------------------------
(* The interactive variant's e-mail classification                         *)

PLACEHOLDER_LOCALS ==
    { <<"0">>, <<"0", "0">>,
      <<"0", "0", "0">>, <<"x">>,
      <<"x", "x">>, <<"x", "x", "x">>,
      <<"x", "x", "x", "x">>, <<"t", "e", "s", "t", "e">>,
      <<"t", "e", "s", "t">>, <<"e", "m", "a", "i", "l">>,
      <<"n", "a", "o", "t", "e", "m">>, <<"s", "e", "m">>,
      <<"s", "e", "m", "e", "m", "a", "i", "l">>, <<"n", "a", "o", "c", "o", "n", "s", "t", "a">>,
      <<"n", "u", "l", "l">>, <<"n", "o", "n", "e">>,
      <<"d", "e", "s", "c", "o", "n", "h", "e", "c", "i", "d", "o">> }

PLACEHOLDER_DOMAINS ==
    { <<"d", "e", "s", "c", "o", "n", "h", "e", "c", "i", "d", "o", ".", "c", "o", "m">>,
      <<"s", "e", "m", ".", "e", "m", "a", "i", "l">>,
      <<"n", "a", "o", "t", "e", "m", ".", "c", "o", "m">>,
      <<"n", "a", "o", "t", "e", "m", ".", "c", "o", "m", ".", "b", "r">>,
      <<"n", "a", "o", "c", "o", "n", "s", "t", "a", ".", "c", "o", "m", ".", "b", "r">>,
      <<"e", "m", "a", "i", "l", ".", "c", "o", "m">>,
      <<"t", "e", "s", "t", "e", ".", "c", "o", "m">>,
      <<"t", "e", "s", "t", ".", "c", "o", "m">> }

COMMON_TYPO_DOMAINS ==
    { <<"g", "a", "m", "i", "l", ".", "c", "o", "m">>,
      <<"g", "m", "i", "a", "l", ".", "c", "o", "m">>,
      <<"g", "m", "a", "i", "l", ".", "c", "o", "n">>,
      <<"g", "m", "a", "i", ".", "c", "o", "m">>,
      <<"h", "o", "t", "n", "a", "i", "l", ".", "c", "o", "m">>,
      <<"h", "o", "t", "m", "a", "i", ".", "c", "o", "m">>,
      <<"h", "o", "t", "m", "a", "l", ".", "c", "o", "m">>,
      <<"y", "a", "h", "o", ".", "c", "o", "m">>,
      <<"y", "h", "o", "o", ".", "c", "o", "m">>,
      <<"y", "a", "h", "o", "o", "l", ".", "c", "o", "m">>,
      <<"o", "u", "t", "l", "o", "k", ".", "c", "o", "m">>,
      <<"o", "u", "t", "l", "l", "o", "k", ".", "c", "o", "m">>,
      <<"o", "t", "l", "o", "o", "k", ".", "c", "o", "m">> }

\* classify_email, line 348: the e-mail as classify_email itself normalises it
classify_normalize(email) == str_rstrip_comma(str_lower(str_strip(email)))

\* a variant of classify_reasons that asks for a placeholder local part AND a
\* placeholder domain
classify_reasons_both(email, local, domain) ==
    IF email = << >> THEN << >>
    ELSE (IF ~EMAIL_REGEX_match(email) THEN << "formato_invalido" >> ELSE << >>)
         \o (IF local \in PLACEHOLDER_LOCALS /\ domain \in PLACEHOLDER_DOMAINS
             THEN << "placeholder_lixo" >> ELSE << >>)
         \o (IF domain \in COMMON_TYPO_DOMAINS THEN << "dominio_typo" >> ELSE << >>)

\* classify_email, lines 349-366, on the e-mail it normalised and split
classify_reasons(email, local, domain) ==
    IF email = << >> THEN << >>
    ELSE (IF ~EMAIL_REGEX_match(email) THEN << "formato_invalido" >> ELSE << >>)
         \o (IF local \in PLACEHOLDER_LOCALS \/ domain \in PLACEHOLDER_DOMAINS
             THEN << "placeholder_lixo" >> ELSE << >>)
         \o (IF domain \in COMMON_TYPO_DOMAINS THEN << "dominio_typo" >> ELSE << >>)

\* classify_email, lines 355-358: email.split("@", 1), or (email, "")
classify_split(email) ==
    classify_reasons(email,
                     IF Contains(email, "@") THEN BeforeFirst(email, "@") ELSE email,
                     IF Contains(email, "@") THEN AfterFirst(email, "@") ELSE << >>)

\* classify_email: the list of reasons, in the order they are appended
classify_email(email0) == classify_split(classify_normalize(email0))

\* a variant of email_norm that leaves trailing commas in place
email_norm_keep_comma(e_mail) == str_lower(str_strip(e_mail))

\* build_analysis, line 442: E_MAIL -> E_MAIL_NORM
email_norm(e_mail) == str_rstrip_comma(str_lower(str_strip(e_mail)))

\* build_analysis, lines 443-448: E_MAIL_NORM -> DOMINIO
email_domain(e_mail_norm) ==
    IF Contains(e_mail_norm, "@") THEN AfterFirst(e_mail_norm, "@") ELSE << >>

-----------------------------------------------------------------------------
(* The batch variant: analyze                                              *)

\* collections.Counter / defaultdict(set) as Python keeps them: the keys in
\* insertion order, each with its value.
CounterKeys(c) == { c[i].key : i \in 1..Len(c) }

CounterIndex(c, k) == CHOOSE i \in 1..Len(c) : c[i].key = k

\* c[k] of a Counter: 0 for a key never counted
CounterGet(c, k) == IF k \in CounterKeys(c) THEN c[CounterIndex(c, k)].n ELSE 0

\* a variant of CounterInc that stores 1 instead of adding 1
CounterInc_store_one(c, k) ==
    IF k \in CounterKeys(c)
    THEN [ c EXCEPT ![CounterIndex(c, k)].n = 1 ]
    ELSE Append(c, [ key |-> k, n |-> 1 ])

\* c[k] += 1
CounterInc(c, k) ==
    IF k \in CounterKeys(c)
    THEN [ c EXCEPT ![CounterIndex(c, k)].n = @ + 1 ]
    ELSE Append(c, [ key |-> k, n |-> 1 ])

\* d[k].add(v) of a defaultdict(set)
SetDictAdd(d, k, v) ==
    IF k \in CounterKeys(d)
    THEN [ d EXCEPT ![CounterIndex(d, k)].members = @ \cup { v } ]
    ELSE Append(d, [ key |-> k, members |-> { v } ])

\* items() of a defaultdict(set) with len() of each set
SetDictSizes(d) ==
    AsSeq([ i \in 1..Len(d) |-> [ key |-> d[i].key, n |-> Cardinality(d[i].members) ] ])

\* sorted(items, key=count, reverse=True): descending by count, items of
\* equal count in their original order (Python's sort is stable, and
\* Counter.most_common(n) is documented as this sort cut to n)
SortedByCountDesc(items) ==
    LET Rank(j) == Cardinality({ k \in 1..Len(items) : items[k].n > items[j].n })
                   + Cardinality({ k \in 1..(j - 1) : items[k].n = items[j].n }) + 1
    IN  AsSeq([ r \in 1..Len(items) |-> items[CHOOSE j \in 1..Len(items) : Rank(j) = r] ])

\* the [:20] / most_common(20) cut of every batch ranking
TopN == 20

Take(s, n) == SubSeq(s, 1, IF Len(s) < n THEN Len(s) ELSE n)

SelectNonEmptyKey(items) == SelectSeq(items, LAMBDA it : it.key # << >>)

\* Counter.most_common(20) followed by the comprehension's "if key"
most_common_non_empty(c) == SelectNonEmptyKey(Take(SortedByCountDesc(c), TopN))

\* AnalysisSummary before analyze returns
NoSummary == [ returned |-> FALSE ]

\* a variant of AnalysisSummary that reports the trimmed-e-mail count as the
\* duplicate count
AnalysisSummary_swapped ==
    [ returned |-> TRUE,
      total_rows |-> total_rows,
      unique_emails |-> Cardinality(unique_emails),
      invalid_emails |-> invalid_emails,
      missing_emails |-> missing_emails,
      rows_with_trimmed_email |-> rows_with_trimmed_email,
      duplicate_exact_rows |-> rows_with_trimmed_email ]

\* analyze, lines 198-205: the summary analyze returns
AnalysisSummary ==
    [ returned |-> TRUE,
      total_rows |-> total_rows,
      unique_emails |-> Cardinality(unique_emails),
      invalid_emails |-> invalid_emails,
      missing_emails |-> missing_emails,
      rows_with_trimmed_email |-> rows_with_trimmed_email,
      duplicate_exact_rows |-> duplicate_exact_rows ]

NoReports == [ written |-> FALSE ]

\* analyze, lines 43-61: the state before the first row is read
\* The input of one batch run.  given: --arquivo was passed; cwd_csv: the
\* working directory holds the expected file or some *.csv; exists: the input
\* path names a file; first_line: what the first line of that file is --
\* "none" (the file has no line at all), "header" (the line of column names)
\* or "data" (a line of data: the file has no header row)
NoInput == [ given |-> FALSE, cwd_csv |-> FALSE, exists |-> FALSE, first_line |-> "unset" ]
NoError == "<no error>"

\* the default of --arquivo, or the exception infer_default_csv_path raises
infer_default_csv_path(file) ==
    IF file.cwd_csv THEN "path" ELSE "FileNotFoundError"

\* csv.DictReader(src).fieldnames: the first line of the file, None without one
reader_fieldnames(file) ==
    IF file.first_line = "none" THEN "None" ELSE file.first_line

\* the dict csv.DictReader yields for a line: keyed by the first line of the
\* file, so that under a first line of data no expected column name is a key
\* and every row.get(...) of analyze returns None
dict_row(file, line) ==
    IF reader_fieldnames(file) = "header"
    THEN line
    ELSE [ NOME_CREDOR |-> None, CPF_CNPJ |-> None,
           NOME_CONTRIBUINTE |-> None, E_MAIL |-> None ]

\* how main and the opening of analyze end on an input: the exception raised,
\* or NoError when the loop over the rows is entered
open_outcome(file) ==
    IF infer_default_csv_path(file) = "FileNotFoundError" THEN "FileNotFoundError"
    ELSE IF ~file.exists THEN "FileNotFoundError"
    ELSE IF reader_fieldnames(file) = "None" THEN "ValueError"
    ELSE NoError

\* The output directory: whether it exists, and its dados_tratados.csv --
\* "absent", "earlier" (the file an earlier run left), "empty" (created or
\* truncated by open("w")) or "current" (holding this run's header and rows)
NoDirectory == [ exists |-> FALSE, dados_tratados |-> "absent" ]

\* analyze, lines 44 and 63-78, on the output directory: mkdir, then, once
\* the input is open, dados_tratados.csv opened for writing, and the header
\* written when the input has a first line
open_output(file, dir) ==
    IF infer_default_csv_path(file) = "FileNotFoundError" THEN dir
    ELSE IF ~file.exists THEN [ dir EXCEPT !.exists = TRUE ]
    ELSE IF reader_fieldnames(file) = "None"
    THEN [ exists |-> TRUE, dados_tratados |-> "empty" ]
    ELSE [ exists |-> TRUE, dados_tratados |-> "current" ]

BatchInit ==
    /\ bpc = "start"
    /\ input_file = NoInput
    /\ raised = NoError
    /\ out_dir = [ before |-> NoDirectory, now |-> NoDirectory ]
    /\ total_rows = 0
    /\ missing_emails = 0
    /\ invalid_emails = 0
    /\ rows_with_trimmed_email = 0
    /\ duplicate_exact_rows = 0
    /\ unique_emails = {}
    /\ domain_counter = << >>
    /\ repeated_email_counter = << >>
    /\ row_count_by_document = << >>
    /\ unique_email_count_by_document = << >>
    /\ unique_email_count_by_taxpayer = << >>
    /\ invalid_rows = << >>
    /\ duplicate_rows = << >>
    /\ seen_exact_rows = {}
    /\ treated = << >>
    /\ summary = NoSummary
    /\ reports = NoReports

\* main, lines 232-248, and analyze, lines 43-78: the default input path is
\* inferred, the arguments parsed, the input opened and its header read
MainAnalyze(file, dir) ==
    /\ bpc = "start"
    /\ input_file' = file
    /\ out_dir' = [ before |-> dir, now |-> open_output(file, dir) ]
    /\ raised' = open_outcome(file)
    /\ bpc' = IF open_outcome(file) = NoError THEN "reading" ELSE "failed"
    /\ UNCHANGED << total_rows, missing_emails, invalid_emails, rows_with_trimmed_email,
                    duplicate_exact_rows, unique_emails, domain_counter,
                    repeated_email_counter, row_count_by_document,
                    unique_email_count_by_document, unique_email_count_by_taxpayer,
                    invalid_rows, duplicate_rows, seen_exact_rows, treated,
                    summary, reports >>

\* a variant of row_identity_of that takes the e-mail cell as it is read
row_identity_raw_email(row) ==
    << normalize_text(row.NOME_CREDOR), normalize_text(row.CPF_CNPJ),
       normalize_text(row.NOME_CONTRIBUINTE), treat_email(row.E_MAIL).raw_email >>

\* analyze, lines 83-87 and 120: the identity tuple of a row
row_identity_of(row) ==
    << normalize_text(row.NOME_CREDOR), normalize_text(row.CPF_CNPJ),
       normalize_text(row.NOME_CONTRIBUINTE), treat_email(row.E_MAIL).clean_email >>

\* analyze, lines 80-143: one iteration of the loop over the reader, on `row`
ProcessRow(line) ==
    LET row           == dict_row(input_file, line)
        line_number   == total_rows + 2
        creditor_name == normalize_text(row.NOME_CREDOR)
        document      == normalize_text(row.CPF_CNPJ)
        taxpayer      == normalize_text(row.NOME_CONTRIBUINTE)
        t             == treat_email(row.E_MAIL)
        clean_email   == t.clean_email
        row_identity  == row_identity_of(row)
        is_duplicate_exact == row_identity \in seen_exact_rows
        counted_valid == clean_email # << >> /\ t.email_is_valid
        counted_invalid == clean_email # << >> /\ ~t.email_is_valid
    IN  /\ bpc = "reading"
        /\ total_rows' = total_rows + 1
        /\ rows_with_trimmed_email' =
               IF t.trimmed THEN rows_with_trimmed_email + 1 ELSE rows_with_trimmed_email
        /\ row_count_by_document' = CounterInc(row_count_by_document, document)
        /\ repeated_email_counter' = CounterInc(repeated_email_counter, clean_email)
        /\ missing_emails' = IF clean_email = << >> THEN missing_emails + 1 ELSE missing_emails
        /\ unique_emails' =
               IF clean_email = << >> THEN unique_emails ELSE unique_emails \cup { clean_email }
        /\ domain_counter' =
               IF counted_valid /\ Contains(clean_email, "@")
               THEN CounterInc(domain_counter, AfterFirst(clean_email, "@"))
               ELSE domain_counter
        /\ unique_email_count_by_document' =
               IF counted_valid
               THEN SetDictAdd(unique_email_count_by_document, document, clean_email)
               ELSE unique_email_count_by_document
        /\ unique_email_count_by_taxpayer' =
               IF counted_valid
               THEN SetDictAdd(unique_email_count_by_taxpayer, taxpayer, clean_email)
               ELSE unique_email_count_by_taxpayer
        /\ invalid_emails' = IF counted_invalid THEN invalid_emails + 1 ELSE invalid_emails
        /\ invalid_rows' =
               IF counted_invalid
               THEN Append(invalid_rows,
                           [ LINHA_CSV |-> line_number,
                             NOME_CREDOR |-> creditor_name,
                             CPF_CNPJ |-> document,
                             NOME_CONTRIBUINTE |-> taxpayer,
                             E_MAIL_ORIGINAL |-> t.raw_email,
                             E_MAIL_TRATADO |-> clean_email ])
               ELSE invalid_rows
        /\ duplicate_exact_rows' =
               IF is_duplicate_exact THEN duplicate_exact_rows + 1 ELSE duplicate_exact_rows
        /\ duplicate_rows' =
               IF is_duplicate_exact
               THEN Append(duplicate_rows,
                           [ LINHA_CSV |-> line_number,
                             NOME_CREDOR |-> creditor_name,
                             CPF_CNPJ |-> document,
                             NOME_CONTRIBUINTE |-> taxpayer,
                             E_MAIL_TRATADO |-> clean_email ])
               ELSE duplicate_rows
        /\ seen_exact_rows' =
               IF is_duplicate_exact THEN seen_exact_rows
               ELSE seen_exact_rows \cup { row_identity }
        /\ treated' =
               Append(treated,
                      [ row |-> row,
                        EMAIL_TRATADO |-> clean_email,
                        EMAIL_VALIDO |-> IF t.email_is_valid THEN "SIM" ELSE "NAO",
                        LINHA_DUPLICADA_EXATA |-> IF is_duplicate_exact THEN "SIM" ELSE "NAO" ])
        /\ UNCHANGED << bpc, input_file, raised, out_dir, summary, reports >>

\* analyze, lines 145-218: the reader is exhausted; the rankings are built,
\* the report files and resumo.txt written, the summary returned
FinishAnalyze ==
    /\ bpc = "reading"
    /\ bpc' = "done"
    /\ reports' =
           [ written |-> TRUE,
             top_dominios |-> Take(SortedByCountDesc(domain_counter), TopN),
             top_emails_repetidos |-> most_common_non_empty(repeated_email_counter),
             top_documentos_por_linhas |-> most_common_non_empty(row_count_by_document),
             top_documentos_por_emails_unicos |->
                 most_common_non_empty(SetDictSizes(unique_email_count_by_document)),
             top_contribuintes_por_emails_unicos |->
                 most_common_non_empty(SetDictSizes(unique_email_count_by_taxpayer)),
             emails_invalidos |-> invalid_rows,
             linhas_duplicadas_exatas |-> duplicate_rows ]
    /\ summary' = AnalysisSummary
    /\ UNCHANGED << input_file, raised, out_dir,
                    total_rows, missing_emails, invalid_emails, rows_with_trimmed_email,
                    duplicate_exact_rows, unique_emails, domain_counter,
                    repeated_email_counter, row_count_by_document,
                    unique_email_count_by_document, unique_email_count_by_taxpayer,
                    invalid_rows, duplicate_rows, seen_exact_rows, treated >>

-----------------------------------------------------------------------------
(* The interactive variant: region text -> state code                      *)

BRAZIL_UFS ==
    { <<"A", "C">>, <<"A", "L">>, <<"A", "P">>, <<"A", "M">>, <<"B", "A">>, <<"C", "E">>, <<"D", "F">>,
      <<"E", "S">>, <<"G", "O">>, <<"M", "A">>, <<"M", "T">>, <<"M", "S">>, <<"M", "G">>, <<"P", "A">>,
      <<"P", "B">>, <<"P", "R">>, <<"P", "E">>, <<"P", "I">>, <<"R", "J">>, <<"R", "N">>, <<"R", "S">>,
      <<"R", "O">>, <<"R", "R">>, <<"S", "C">>, <<"S", "P">>, <<"S", "E">>, <<"T", "O">> }

\* str(value).strip() of the interactive variant's normalize_text
app_normalize_text(value) == str_strip(value)

\* unicodedata.normalize("NFKD", c).encode("ascii", "ignore") on one character:
\* an ASCII character stays, an accented letter keeps its base letter, any
\* other character is dropped
ascii_fold_char(c) ==
    IF c = "U+00C3" THEN << "A" >>
    ELSE IF c = "U+00E3" THEN << "a" >>
    ELSE IF c = "U+2013" THEN << >>
    ELSE << c >>

RECURSIVE ascii_fold(_)
ascii_fold(s) == IF s = << >> THEN << >> ELSE ascii_fold_char(Head(s)) \o ascii_fold(Tail(s))

\* \w on ASCII text
IsWordAt(s, i) == i \in 1..Len(s) /\ s[i] \in (AsciiLetters \cup AsciiDigits \cup { "_" })

\* \b between s[i] and s[i+1] (i = 0: the start, i = Len(s): the end)
WordBoundaryAfter(s, i) == IsWordAt(s, i) # IsWordAt(s, i + 1)

\* ([A-Z]{2})\b with the two letters at i, i+1
TwoUpperThenBoundary(s, i) ==
    /\ i + 1 <= Len(s)
    /\ s[i] \in AsciiUpper
    /\ s[i + 1] \in AsciiUpper
    /\ WordBoundaryAfter(s, i + 1)

\* the first index after p that holds no whitespace (Len(s)+1 if none): where \s* stops
SkipSpace(s, p) ==
    CHOOSE q \in (p + 1)..(Len(s) + 1) :
        /\ \A j \in (p + 1)..(q - 1) : s[j] \in Whitespace
        /\ (q <= Len(s) => s[q] \notin Whitespace)

\* re.findall(r"/\s*([A-Z]{2})\b", s): the captured codes, left to right
RECURSIVE slash_codes_from(_, _)
slash_codes_from(s, p) ==
    IF p > Len(s) THEN << >>
    ELSE IF s[p] = "/" /\ TwoUpperThenBoundary(s, SkipSpace(s, p))
         THEN << SubSeq(s, SkipSpace(s, p), SkipSpace(s, p) + 1) >>
              \o slash_codes_from(s, SkipSpace(s, p) + 2)
         ELSE slash_codes_from(s, p + 1)

slash_codes(s) == slash_codes_from(s, 1)

\* re.findall(r"\b([A-Z]{2})\b", s)
RECURSIVE two_letter_tokens_from(_, _)
two_letter_tokens_from(s, p) ==
    IF p > Len(s) THEN << >>
    ELSE IF WordBoundaryAfter(s, p - 1) /\ TwoUpperThenBoundary(s, p)
         THEN << SubSeq(s, p, p + 1) >> \o two_letter_tokens_from(s, p + 2)
         ELSE two_letter_tokens_from(s, p + 1)

two_letter_tokens(s) == two_letter_tokens_from(s, 1)

\* re.search(r"\b([A-Z]{2})\b\s*$", s): the captured code in a list, or the empty list
end_code(s) ==
    LET hits == { i \in 1..Len(s) :
                    /\ WordBoundaryAfter(s, i - 1)
                    /\ TwoUpperThenBoundary(s, i)
                    /\ \A j \in (i + 2)..Len(s) : s[j] \in Whitespace }
    IN  IF hits = {} THEN << >>
        ELSE LET i == CHOOSE h \in hits : \A g \in hits : h <= g
             IN  << SubSeq(s, i, i + 1) >>

Last(seq) == seq[Len(seq)]

\* the text extract_brazil_uf runs its patterns on, line 203
uf_normalized(value) == ascii_fold(str_upper(app_normalize_text(value)))

\* a variant of extract_brazil_uf that returns the last code after a "/" without
\* looking it up in BRAZIL_UFS
extract_brazil_uf_unchecked(value) ==
    LET text        == str_upper(app_normalize_text(value))
        normalized  == ascii_fold(text)
        slash_match == slash_codes(normalized)
        end_match   == end_code(normalized)
        valid_tokens == SelectSeq(two_letter_tokens(normalized), LAMBDA t : t \in BRAZIL_UFS)
    IN  IF text = << >> THEN << >>
        ELSE IF slash_match # << >> THEN Last(slash_match)
        ELSE IF end_match # << >> /\ end_match[1] \in BRAZIL_UFS THEN end_match[1]
        ELSE IF valid_tokens # << >> THEN Last(valid_tokens)
        ELSE << >>

\* a variant of extract_brazil_uf that looks at the first code after a "/"
extract_brazil_uf_first_slash(value) ==
    LET text        == str_upper(app_normalize_text(value))
        normalized  == ascii_fold(text)
        slash_match == slash_codes(normalized)
        end_match   == end_code(normalized)
        valid_tokens == SelectSeq(two_letter_tokens(normalized), LAMBDA t : t \in BRAZIL_UFS)
    IN  IF text = << >> THEN << >>
        ELSE IF slash_match # << >> /\ slash_match[1] \in BRAZIL_UFS THEN slash_match[1]
        ELSE IF end_match # << >> /\ end_match[1] \in BRAZIL_UFS THEN end_match[1]
        ELSE IF valid_tokens # << >> THEN Last(valid_tokens)
        ELSE << >>

\* extract_brazil_uf, lines 198-218
extract_brazil_uf(value) ==
    LET text        == str_upper(app_normalize_text(value))
        normalized  == ascii_fold(text)
        slash_match == slash_codes(normalized)
        end_match   == end_code(normalized)
        valid_tokens == SelectSeq(two_letter_tokens(normalized), LAMBDA t : t \in BRAZIL_UFS)
    IN  IF text = << >> THEN << >>
        ELSE IF slash_match # << >> /\ Last(slash_match) \in BRAZIL_UFS THEN Last(slash_match)
        ELSE IF end_match # << >> /\ end_match[1] \in BRAZIL_UFS THEN end_match[1]
        ELSE IF valid_tokens # << >> THEN Last(valid_tokens)
        ELSE << >>

-----------------------------------------------------------------------------
(* The interactive variant: build_analysis                                 *)

\* "sub" in s
HasSub(s, sub) == \E i \in 1..(Len(s) - Len(sub) + 1) : SubSeq(s, i, i + Len(sub) - 1) = sub

EndsWith(s, suffix) ==
    Len(suffix) <= Len(s) /\ SubSeq(s, Len(s) - Len(suffix) + 1, Len(s)) = suffix

\* domain_family, lines 371-385, on the lower-cased, stripped domain
family_of(domain) ==
    IF domain = << >> THEN "Sem dominio"
    ELSE IF HasSub(domain, << "g", "m", "a", "i", "l" >>) THEN "Gmail"
    ELSE IF \E k \in { << "h", "o", "t", "m", "a", "i", "l" >>,
                       << "o", "u", "t", "l", "o", "o", "k" >>,
                       << "l", "i", "v", "e" >>, << "m", "s", "n" >> } : HasSub(domain, k)
         THEN "Hotmail / Outlook"
    ELSE IF \E k \in { << "y", "a", "h", "o", "o" >>, << "y", "m", "a", "i", "l" >>,
                       << "y", "a", "h", "o", "o", "l" >> } : HasSub(domain, k)
         THEN "Yahoo"
    ELSE IF \E k \in { << "u", "o", "l" >>, << "b", "o", "l" >>, << "i", "g" >>,
                       << "t", "e", "r", "r", "a" >>, << "o", "i" >>,
                       << "g", "l", "o", "b", "o" >> } : HasSub(domain, k)
         THEN "Portais BR"
    ELSE IF EndsWith(domain, << ".", "g", "o", "v", ".", "b", "r" >>) THEN "Governo"
    ELSE IF HasSub(domain, << "c", "r", "e", "c", "i" >>) THEN "CRECI"
    ELSE "Outros"

domain_family(domain0) == family_of(str_strip(str_lower(domain0)))

repeat_bucket(value) ==
    IF value <= 1 THEN "1 vez"
    ELSE IF value = 2 THEN "2 vezes"
    ELSE IF value = 3 THEN "3 vezes"
    ELSE IF value <= 5 THEN "4-5 vezes"
    ELSE IF value <= 10 THEN "6-10 vezes"
    ELSE "11+ vezes"

\* the "(nao usar)" choice of a mapping select box: no column
NoColumn == "(nao usar)"

\* re.sub(r"\D+", "", s)
digits_only(s) == SelectSeq(s, LAMBDA c : c \in AsciiDigits)

\* a variant of status_email that assigns "Suspeito" after "Invalido"
status_email_suspect_last(qtd, suspeito, e_mail_norm, formato_valido) ==
    LET s0 == "Unico limpo"
        s1 == IF qtd > 1 THEN "Repetido" ELSE s0
        s2 == IF e_mail_norm # << >> /\ ~formato_valido THEN "Invalido" ELSE s1
        s3 == IF suspeito THEN "Suspeito" ELSE s2
        s4 == IF e_mail_norm = << >> THEN "Sem email" ELSE s3
    IN  s4

\* a variant of status_email that assigns "Repetido" after "Invalido"
status_email_repeated_last(qtd, suspeito, e_mail_norm, formato_valido) ==
    LET s0 == "Unico limpo"
        s1 == IF suspeito THEN "Suspeito" ELSE s0
        s2 == IF e_mail_norm # << >> /\ ~formato_valido THEN "Invalido" ELSE s1
        s3 == IF qtd > 1 THEN "Repetido" ELSE s2
        s4 == IF e_mail_norm = << >> THEN "Sem email" ELSE s3
    IN  s4

\* build_analysis, lines 466-470: the status column, each assignment
\* overriding the ones before it
status_email(qtd, suspeito, e_mail_norm, formato_valido) ==
    LET s0 == "Unico limpo"
        s1 == IF qtd > 1 THEN "Repetido" ELSE s0
        s2 == IF suspeito THEN "Suspeito" ELSE s1
        s3 == IF e_mail_norm # << >> /\ ~formato_valido THEN "Invalido" ELSE s2
        s4 == IF e_mail_norm = << >> THEN "Sem email" ELSE s3
    IN  s4

\* pick_column on one cell: "" when the role has no column, else the stripped cell
pick_cell(row, selected_col) ==
    IF selected_col = NoColumn THEN << >> ELSE str_strip(row[selected_col])

\* build_analysis, lines 435-470, for one row: the picked columns and every
\* column derived from them, given the row's E_MAIL_NORM, its reasons and its
\* format check.  SUSPEITO_RAZOES is kept as the list of reasons: the code
\* joins it with ";", and the joined text is empty exactly when the list is.
base_columns(row, m, qtd, E_MAIL_NORM, DOMINIO, reasons, valido) ==
    [ ORIGEM |-> pick_cell(row, m.source),
      CPF_CNPJ |-> pick_cell(row, m.document),
      NOME |-> pick_cell(row, m.name),
      E_MAIL |-> pick_cell(row, m.email),
      REGIAO |-> pick_cell(row, m.region),
      CPF_CNPJ_NORM |-> digits_only(pick_cell(row, m.document)),
      E_MAIL_NORM |-> E_MAIL_NORM,
      DOMINIO |-> DOMINIO,
      QTD_REPETICOES_EMAIL |-> qtd,
      EMAIL_REPETIDO |-> qtd > 1,
      SUSPEITO_RAZOES |-> reasons,
      EMAIL_SUSPEITO |-> reasons # << >>,
      EMAIL_FORMATO_VALIDO |-> valido,
      FAMILIA_DOMINIO |-> domain_family(DOMINIO),
      FAIXA_REPETICAO |-> repeat_bucket(qtd),
      UF_REGIAO |-> extract_brazil_uf(pick_cell(row, m.region)),
      STATUS_EMAIL |-> status_email(qtd, reasons # << >>, E_MAIL_NORM, valido) ]

\* lines 443-461: DOMINIO, classify_email and the format check, all on E_MAIL_NORM
base_derive(row, m, qtd, E_MAIL_NORM) ==
    base_columns(row, m, qtd, E_MAIL_NORM, email_domain(E_MAIL_NORM),
                 classify_email(E_MAIL_NORM), EMAIL_REGEX_match(E_MAIL_NORM))

\* qtd is the row's entry of email_counts (0 for an empty E_MAIL_NORM)
base_row(row, m, qtd) == base_derive(row, m, qtd, email_norm(pick_cell(row, m.email)))

\* a variant of email_count that counts the rows with the same E_MAIL cell
email_count_raw_cell(dfv, m, i) ==
    LET norm(j) == email_norm(pick_cell(dfv.rows[j], m.email))
    IN  IF norm(i) = << >> THEN 0
        ELSE Cardinality({ j \in 1..Len(dfv.rows) :
                             pick_cell(dfv.rows[j], m.email) = pick_cell(dfv.rows[i], m.email) })

\* build_analysis, lines 450-455: email_counts (value_counts over the rows with
\* a non-empty E_MAIL_NORM) mapped back onto row i, 0 where there is none
email_count(dfv, m, i) ==
    LET norm(j) == email_norm(pick_cell(dfv.rows[j], m.email))
    IN  IF norm(i) = << >> THEN 0
        ELSE Cardinality({ j \in 1..Len(dfv.rows) : norm(j) = norm(i) })

\* build_analysis, lines 434-470: the base table, one record per input row
build_base(dfv, m) ==
    AsSeq([ i \in 1..Len(dfv.rows) |-> base_row(dfv.rows[i], m, email_count(dfv, m, i)) ])

SeqToSet(seq) == { seq[i] : i \in 1..Len(seq) }

\* Counter / value_counts tally of a list of keys: one [key, n] entry per key,
\* in the order the keys first appear
RECURSIVE tally(_)
tally(keys) ==
    IF keys = << >> THEN << >>
    ELSE CounterInc(tally(SubSeq(keys, 1, Len(keys) - 1)), keys[Len(keys)])

\* Series.value_counts(): the tally sorted by count, descending; keys of equal
\* count stay in their order of first appearance (the sort pandas runs is
\* stable on tables of this size)
value_counts(keys) == SortedByCountDesc(tally(keys))

\* sort_values(by=[count, key], ascending=[False, True]) of a tally: by count
\* descending, keys of equal count ascending
sorted_by_count_then_key(items) ==
    LET Before(k, j) ==
            \/ items[k].n > items[j].n
            \/ items[k].n = items[j].n /\ str_less(items[k].key, items[j].key)
        Rank(j) == Cardinality({ k \in 1..Len(items) : Before(k, j) }) + 1
    IN  AsSeq([ r \in 1..Len(items) |-> items[CHOOSE j \in 1..Len(items) : Rank(j) = r] ])

\* build_analysis, lines 450-453: email_counts and repeated_email_counts
email_counts(base) ==
    LET non_empty == SelectSeq(base, LAMBDA r : r.E_MAIL_NORM # << >>)
    IN  value_counts(AsSeq([ i \in 1..Len(non_empty) |-> non_empty[i].E_MAIL_NORM ]))

repeated_email_counts(base) == SelectSeq(email_counts(base), LAMBDA it : it.n > 1)

\* build_analysis, lines 479-483
repeated_summary(base) == sorted_by_count_then_key(repeated_email_counts(base))

\* build_analysis, lines 472-474: the rows with EMAIL_REPETIDO by count
\* descending and e-mail ascending, rows of one e-mail in table order
repeated_rows(base) ==
    LET rows == SelectSeq(base, LAMBDA r : r.EMAIL_REPETIDO)
        Before(k, j) ==
            \/ rows[k].QTD_REPETICOES_EMAIL > rows[j].QTD_REPETICOES_EMAIL
            \/ /\ rows[k].QTD_REPETICOES_EMAIL = rows[j].QTD_REPETICOES_EMAIL
               /\ str_less(rows[k].E_MAIL_NORM, rows[j].E_MAIL_NORM)
            \/ /\ rows[k].QTD_REPETICOES_EMAIL = rows[j].QTD_REPETICOES_EMAIL
               /\ rows[k].E_MAIL_NORM = rows[j].E_MAIL_NORM
               /\ k < j
        Rank(j) == Cardinality({ k \in 1..Len(rows) : Before(k, j) }) + 1
    IN  AsSeq([ r \in 1..Len(rows) |-> rows[CHOOSE j \in 1..Len(rows) : Rank(j) = r] ])

\* build_analysis, line 475: the first row of every non-empty E_MAIL_NORM
unique_email_rows(base) ==
    LET keep == { i \in 1..Len(base) :
                    /\ base[i].E_MAIL_NORM # << >>
                    /\ \A j \in 1..(i - 1) : base[j].E_MAIL_NORM # base[i].E_MAIL_NORM }
        RECURSIVE pick(_)
        pick(i) == IF i > Len(base) THEN << >>
                   ELSE (IF i \in keep THEN << base[i] >> ELSE << >>) \o pick(i + 1)
    IN  pick(1)

\* build_analysis, lines 485-489: the domain after the first "@" of every row
\* whose E_MAIL_NORM is non-empty and holds an "@"
domain_series(base) ==
    LET with_at == SelectSeq(base, LAMBDA r : r.E_MAIL_NORM # << >> /\ Contains(r.E_MAIL_NORM, "@"))
    IN  AsSeq([ i \in 1..Len(with_at) |-> AfterFirst(with_at[i].E_MAIL_NORM, "@") ])

\* build_analysis, lines 472-517: the row selections and the metrics
analysis_of(base) ==
    LET suspect_rows == SelectSeq(base, LAMBDA r : r.EMAIL_SUSPEITO)
        invalid_rows_ == SelectSeq(base, LAMBDA r : r.E_MAIL_NORM # << >> /\ ~r.EMAIL_FORMATO_VALIDO)
        non_empty == SelectSeq(base, LAMBDA r : r.E_MAIL_NORM # << >>)
        emails == { r.E_MAIL_NORM : r \in SeqToSet(non_empty) }
        docs == { r.CPF_CNPJ_NORM : r \in SeqToSet(base) } \ { << >> }
        doc_emails(d) == { r.E_MAIL_NORM : r \in { x \in SeqToSet(non_empty) : x.CPF_CNPJ_NORM = d } }
    IN  [ built |-> TRUE,
          base |-> base,
          suspect_rows |-> suspect_rows,
          invalid_rows |-> invalid_rows_,
          repeated_rows |-> repeated_rows(base),
          repeated_summary |-> repeated_summary(base),
          unique_email_rows |-> unique_email_rows(base),
          top_domains |-> value_counts(domain_series(base)),
          metrics |->
              [ total_rows |-> Len(base),
                emails_total |-> Len(non_empty),
                emails_unique |-> Cardinality(emails),
                repeated_distinct |-> Len(repeated_email_counts(base)),
                repeated_rows |-> Len(repeated_rows(base)),
                invalid_format_rows |-> Len(invalid_rows_),
                suspect_rows |-> Len(suspect_rows),
                unique_clients |-> Cardinality(docs),
                clients_multi_email |-> Cardinality({ d \in docs : Cardinality(doc_emails(d)) > 1 }) ] ]

build_analysis(dfv, m) == analysis_of(build_base(dfv, m))

NoTable == [ columns |-> << >>, rows |-> << >> ]
NoResult == [ built |-> FALSE ]

-----------------------------------------------------------------------------
(* The interactive variant: guessing the column of each role               *)

\* the roles, in the order FIELD_LABELS and HEADER_ALIASES list them
FIELD_LABELS == << "source", "document", "name", "email", "region" >>

HEADER_ALIASES ==
    [ source |->
        { << "o", "r", "i", "g", "e", "m" >>,
          << "n", "o", "m", "e", "_", "c", "r", "e", "d", "o", "r" >>,
          << "c", "r", "e", "d", "o", "r" >>,
          << "f", "o", "n", "t", "e" >>,
          << "o", "r", "g", "a", "o" >> },
      document |->
        { << "c", "p", "f", "_", "c", "n", "p", "j" >>,
          << "c", "p", "f", "c", "n", "p", "j" >>,
          << "c", "p", "f" >>,
          << "c", "n", "p", "j" >>,
          << "d", "o", "c", "u", "m", "e", "n", "t", "o" >>,
          << "d", "o", "c" >> },
      name |->
        { << "n", "o", "m", "e" >>,
          << "n", "o", "m", "e", "_", "c", "o", "n", "t", "r", "i", "b", "u", "i", "n", "t", "e" >>,
          << "c", "l", "i", "e", "n", "t", "e" >>,
          << "n", "o", "m", "e", "_", "c", "l", "i", "e", "n", "t", "e" >> },
      email |->
        { << "e", "m", "a", "i", "l" >>,
          << "e", "_", "m", "a", "i", "l" >>,
          << "e", "-", "m", "a", "i", "l" >>,
          << "m", "a", "i", "l" >>,
          << "c", "o", "r", "r", "e", "i", "o", "_", "e", "l", "e", "t", "r", "o", "n", "i", "c", "o" >> },
      region |->
        { << "r", "e", "g", "i", "a", "o" >>,
          << "r", "e", "g", "i", "a", "o", "_", "c", "r", "e", "c", "i" >>,
          << "r", "e", "g", "i", "o", "n", "a", "l" >>,
          << "c", "r", "e", "c", "i" >>,
          << "r", "e", "g", "i", "a", "o", "_", "u", "f" >> } ]

\* A column is named by a string; column_text gives the characters of that
\* name, the text normalize_header works on.
column_text(col) ==
    CASE col = "ORIGEM" -> << "O", "R", "I", "G", "E", "M" >>
      [] col = "CPF_CNPJ" -> << "C", "P", "F", "_", "C", "N", "P", "J" >>
      [] col = "NOME" -> << "N", "O", "M", "E" >>
      [] col = "E_MAIL" -> << "E", "_", "M", "A", "I", "L" >>
      [] col = "REGIAO" -> << "R", "E", "G", "I", "A", "O" >>
      [] col = "col_1" -> << "c", "o", "l", "_", "1" >>
      [] col = "col_2" -> << "c", "o", "l", "_", "2" >>
      [] col = "col_3" -> << "c", "o", "l", "_", "3" >>
      [] col = "col_4" -> << "c", "o", "l", "_", "4" >>
      [] col = "col_5" -> << "c", "o", "l", "_", "5" >>
      [] col = "c1" -> << "c", "1" >>
      [] col = "c2" -> << "c", "2" >>
      [] col = "c3" -> << "c", "3" >>
      [] col = "c4" -> << "c", "4" >>
      [] col = "c5" -> << "c", "5" >>
      [] col = "c6" -> << "c", "6" >>
      [] col = "E-mail" -> << "E", "-", "m", "a", "i", "l" >>
      [] col = "CPF" -> << "C", "P", "F" >>
      [] col = "Nome Cliente" -> << "N", "o", "m", "e", " ", "C", "l", "i", "e", "n", "t", "e" >>
      [] col = "Regiao (a-tilde)" -> << "R", "e", "g", "i", "U+00E3", "o" >>

\* re.sub(r"[^a-z0-9]+", "_", s): every run of other characters becomes one "_"
RECURSIVE sub_non_alnum(_, _)
sub_non_alnum(s, in_run) ==
    IF s = << >> THEN << >>
    ELSE IF Head(s) \in (AsciiLower \cup AsciiDigits)
         THEN << Head(s) >> \o sub_non_alnum(Tail(s), FALSE)
         ELSE (IF in_run THEN << >> ELSE << "_" >>) \o sub_non_alnum(Tail(s), TRUE)

\* normalize_header: trim, drop accents, lower-case, runs of other characters
\* to "_", and no "_" at either end
normalize_header(value) ==
    LET text       == app_normalize_text(value)
        ascii_text == ascii_fold(text)
        replaced   == sub_non_alnum(str_lower(ascii_text), FALSE)
    IN  str_rstrip_set(str_lstrip_set(replaced, { "_" }), { "_" })

\* guess_by_alias: per role, the first column whose normalized header is one
\* of the role's aliases, else None
guess_by_alias(columns) ==
    [ field \in { FIELD_LABELS[i] : i \in 1..Len(FIELD_LABELS) } |->
        LET matches == { i \in 1..Len(columns) :
                           normalize_header(column_text(columns[i])) \in HEADER_ALIASES[field] }
        IN  IF matches = {} THEN NoColumn
            ELSE columns[CHOOSE i \in matches : \A j \in matches : i <= j] ]

\* .head(1000) of the three score functions
HeadSample == 1000

\* series.astype(str).str.strip().head(1000) of column col
column_sample(dfv, col) ==
    AsSeq([ i \in 1..(IF Len(dfv.rows) < HeadSample THEN Len(dfv.rows) ELSE HeadSample) |->
              str_strip(dfv.rows[i][col]) ])

\* the mean of a boolean sample, kept as the fraction num/den (0.0 = 0/1 for
\* an empty sample)
mean_of(flags) ==
    IF Len(flags) = 0 THEN [ num |-> 0, den |-> 1 ]
    ELSE [ num |-> Cardinality({ i \in 1..Len(flags) : flags[i] }), den |-> Len(flags) ]

score_email_column(dfv, col) ==
    LET sample == column_sample(dfv, col)
    IN  mean_of([ i \in 1..Len(sample) |-> Contains(str_lower(sample[i]), "@") ])

score_document_column(dfv, col) ==
    LET sample == column_sample(dfv, col)
    IN  mean_of([ i \in 1..Len(sample) |-> Len(digits_only(sample[i])) \in { 11, 14 } ])

score_name_column(dfv, col) ==
    LET sample == column_sample(dfv, col)
    IN  mean_of([ i \in 1..Len(sample) |->
                    /\ Contains(sample[i], " ")
                    /\ \E k \in 1..Len(sample[i]) : sample[i][k] \in AsciiLetters ])

score_greater(a, b) == a.num * b.den > b.num * a.den

\* sorted(((col, score) ...), key=score, reverse=True)[0] if its score is > 0:
\* the sort is stable, so among equal scores the earlier column comes first
best_scored(columns, scored) ==
    LET IsTop(i) ==
            /\ \A j \in 1..Len(columns) : ~score_greater(scored[j], scored[i])
            /\ \A j \in 1..(i - 1) : score_greater(scored[i], scored[j])
    IN  IF columns = << >> THEN NoColumn
        ELSE LET top == CHOOSE i \in 1..Len(columns) : IsTop(i)
             IN  IF scored[top].num > 0 THEN columns[top] ELSE NoColumn

\* the (col, score) list of each role, as the scores in column order
email_scores(dfv) == AsSeq([ i \in 1..Len(dfv.columns) |-> score_email_column(dfv, dfv.columns[i]) ])
document_scores(dfv) == AsSeq([ i \in 1..Len(dfv.columns) |-> score_document_column(dfv, dfv.columns[i]) ])
name_scores(dfv) == AsSeq([ i \in 1..Len(dfv.columns) |-> score_name_column(dfv, dfv.columns[i]) ])

\* a variant of guess_columns that assigns by position whenever the table has
\* five columns, whether or not an alias matched
guess_columns_positional_first(dfv) ==
    LET columns == dfv.columns
        guessed == guess_by_alias(columns)
    IN  IF Len(columns) >= 5
        THEN [ source |-> columns[1], document |-> columns[2], name |-> columns[3],
               email |-> columns[4], region |-> columns[5] ]
        ELSE [ email |-> IF guessed.email = NoColumn
                         THEN best_scored(columns, email_scores(dfv)) ELSE guessed.email,
               document |-> IF guessed.document = NoColumn
                            THEN best_scored(columns, document_scores(dfv)) ELSE guessed.document,
               name |-> IF guessed.name = NoColumn
                        THEN best_scored(columns, name_scores(dfv)) ELSE guessed.name,
               source |-> IF guessed.source = NoColumn /\ Len(columns) > 0
                          THEN columns[1] ELSE guessed.source,
               region |-> guessed.region ]

\* guess_columns, lines 307-337
guess_columns(dfv) ==
    LET columns == dfv.columns
        guessed == guess_by_alias(columns)
    IN  IF Len(columns) >= 5 /\ \A field \in DOMAIN guessed : guessed[field] = NoColumn
        THEN [ source |-> columns[1], document |-> columns[2], name |-> columns[3],
               email |-> columns[4], region |-> columns[5] ]
        ELSE [ email |-> IF guessed.email = NoColumn
                         THEN best_scored(columns, email_scores(dfv)) ELSE guessed.email,
               document |-> IF guessed.document = NoColumn
                            THEN best_scored(columns, document_scores(dfv)) ELSE guessed.document,
               name |-> IF guessed.name = NoColumn
                        THEN best_scored(columns, name_scores(dfv)) ELSE guessed.name,
               source |-> IF guessed.source = NoColumn /\ Len(columns) > 0
                          THEN columns[1] ELSE guessed.source,
               region |-> IF guessed.region = NoColumn /\ Len(columns) >= 5
                          THEN columns[5] ELSE guessed.region ]

-----------------------------------------------------------------------------
(* Inputs                                                                  *)

\* all sequences over `chars` of length at most n
RECURSIVE SeqsUpTo(_, _)
SeqsUpTo(chars, n) ==
    IF n = 0 THEN { << >> }
    ELSE LET shorter == SeqsUpTo(chars, n - 1)
         IN  shorter \cup { Append(t, c) : t \in shorter, c \in chars }

\* longest run of blanks, commas and line feeds after an e-mail value
MaxTrail == 2
\* most rows the batch reader yields
MaxRows == 3
\* most rows of an uploaded table
MaxTableRows == 3
\* most pieces a region text is made of
MaxRegionParts == 6

\* E-mail cells: [blank] local at-signs domain tld [trailing blanks, commas, line feeds]
EmailLocals ==
    { << >>, << "a" >>, << "J", "o" >>, << "a", "_", "1" >>, << "x" >>, << "a", " ", "b" >> }
EmailAts == { << >>, << "@" >>, << "@", "@" >> }
EmailDomains ==
    { << >>, << "b" >>, << "B", "-", "1" >>, << "b", "_" >>, << "b", ".", "c" >>,
      << "t", "e", "s", "t", "e" >> }
EmailTlds ==
    { << >>, << ".", "c" >>, << ".", "c", "o" >>, << ".", "C", "O", "M" >>, << ".", "c", "1" >>,
      << ".", "c", "o", "m" >> }
EmailLeads == { << >>, << " " >> }
EmailTrails == SeqsUpTo({ " ", ",", "\n" }, MaxTrail)

EmailInputs ==
    { lead \o l \o a \o d \o t \o trail :
        lead \in EmailLeads, l \in EmailLocals, a \in EmailAts,
        d \in EmailDomains, t \in EmailTlds, trail \in EmailTrails }
    \cup { << " ", "J", "O", "A", "O", "@", "G", "M", "A", "I", "L", ".", "C", "O", "M", " " >>,
           << "t", "e", "s", "t", "e", "@", "t", "e", "s", "t", "e", ".", "c", "o", "m" >>,
           << "a", "@", "b", ".", "c", "o", "m", "," >> }

\* Region texts: up to MaxRegionParts pieces, and the texts of the scenarios
RegionParts == { << "/" >>, << " " >>, << "S", "P" >>, << "R", "J" >>, << "X", "X" >> }

RECURSIVE Concat(_)
Concat(parts) == IF parts = << >> THEN << >> ELSE Head(parts) \o Concat(Tail(parts))

RegionInputs ==
    { Concat(ps) : ps \in SeqsUpTo(RegionParts, MaxRegionParts) }
    \cup { << "S", "a", "o", " ", "P", "a", "u", "l", "o", "/", "S", "P" >>,
           << "S", "U+00E3", "o", " ", "P", "a", "u", "l", "o", " ", "/", " ", "s", "p" >>,
           << "S", "U+2013", "P" >>,
           << "r", "e", "g", "i", "a", "o", " ", "d", "e", "s", "c", "o", "n", "h", "e", "c", "i", "d", "a" >> }

\* Rows of the batch input CSV (the E-MAIL column is written E_MAIL)
\* Inputs of a batch run: without --arquivo the input is the file
\* infer_default_csv_path found, which exists; a file that does not exist has
\* no first line
InputFiles ==
    { f \in [ given : BOOLEAN, cwd_csv : BOOLEAN, exists : BOOLEAN,
              first_line : { "none", "header", "data" } ] :
        /\ (~f.given => f.exists = f.cwd_csv)
        /\ (~f.exists => f.first_line = "none") }

\* Streams for the rankings.  KeyOf(k) is the text "1" repeated k times.
MaxRankRows == 21
RankFile == [ given |-> TRUE, cwd_csv |-> TRUE, exists |-> TRUE, first_line |-> "header" ]

KeyOf(k) == AsSeq([ i \in 1..k |-> "1" ])
RankRow(k) ==
    [ NOME_CREDOR |-> << "A", "c", "m", "e" >>, CPF_CNPJ |-> KeyOf(k),
      NOME_CONTRIBUINTE |-> KeyOf(k), E_MAIL |-> KeyOf(k) \o << "@", "b", ".", "c", "o" >> ]
RankRows(k, written) ==
    { RankRow(k) } \cup
    { r \in { [ RankRow(k) EXCEPT !.E_MAIL = << >> ],
              [ RankRow(k) EXCEPT !.CPF_CNPJ = << >>, !.NOME_CONTRIBUINTE = << >> ] } :
        \A i \in 1..Len(written) : written[i].row = RankRow(i) }

\* the output directory a run finds: missing, empty, or left by an earlier run
OutputDirs ==
    { NoDirectory,
      [ exists |-> TRUE, dados_tratados |-> "absent" ],
      [ exists |-> TRUE, dados_tratados |-> "earlier" ] }

BatchRows ==
    { [ NOME_CREDOR |-> << "A", "c", "m", "e" >>, CPF_CNPJ |-> << "1", "2", "3" >>,
        NOME_CONTRIBUINTE |-> << "J", "o", "a", "o" >>,
        E_MAIL |-> << " ", "J", "O", "A", "O", "@", "G", "M", "A", "I", "L", ".", "C", "O", "M", " " >> ],
      [ NOME_CREDOR |-> << " ", "A", "c", "m", "e", " " >>, CPF_CNPJ |-> << "1", "2", "3" >>,
        NOME_CONTRIBUINTE |-> << "J", "o", "a", "o", " " >>,
        E_MAIL |-> << "j", "o", "a", "o", "@", "g", "m", "a", "i", "l", ".", "c", "o", "m" >> ],
      [ NOME_CREDOR |-> << "A", "c", "m", "e" >>, CPF_CNPJ |-> << "1", "2", "3" >>,
        NOME_CONTRIBUINTE |-> << "J", "o", "a", "o" >>,
        E_MAIL |-> << "a", "@", "b", ".", "c", "o", "m", "," >> ],
      [ NOME_CREDOR |-> << "A", "c", "m", "e" >>, CPF_CNPJ |-> << "1", ".", "2", "-", "3" >>,
        NOME_CONTRIBUINTE |-> << "J", "o", "a", "o" >>,
        E_MAIL |-> << >> ],
      [ NOME_CREDOR |-> << "A", "c", "m", "e" >>, CPF_CNPJ |-> << >>,
        NOME_CONTRIBUINTE |-> << "M", "a", "r", "i", "a" >>,
        E_MAIL |-> << "x", "@", "y", ".", "c" >> ],
      [ NOME_CREDOR |-> << "B", "e", "t", "a" >>, CPF_CNPJ |-> << "1", "2", "3" >>,
        NOME_CONTRIBUINTE |-> << >>,
        E_MAIL |-> << "a", "n", "a", "@", "b", ".", "c", "o" >> ],
      [ NOME_CREDOR |-> << "A", "c", "m", "e" >>, CPF_CNPJ |-> << "1", "2", "3" >>,
        NOME_CONTRIBUINTE |-> << "J", "o", "a", "o" >>,
        E_MAIL |-> None ] }

\* Rows of an uploaded table
\* Tables for guess_columns: a layout of column names, and rows in which one
\* column (or two, in a layout of up to three columns) holds a cell of one kind
\* (an e-mail, a document, a name) and the others a cell that scores for no role
MaxGuessRows == 2

GuessLayouts ==
    { << "E-mail" >>,
      << "c1", "c2" >>,
      << "Nome Cliente", "CPF", "c3" >>,
      << "c1", "c2", "c3", "c4" >>,
      << "c1", "c2", "c3", "c4", "c5" >>,
      << "c1", "c2", "c3", "c4", "Regiao (a-tilde)" >>,
      << "c1", "c2", "E-mail", "c4", "c5" >>,
      << "c1", "c2", "c3", "c4", "c5", "c6" >> }

PlainCell == << "x" >>
ScoringCells ==
    { << "A", "@", "B" >>,
      << "A", "n", "a", " ", "L" >>,
      << "1", "2", "3", ".", "4", "5", "6", ".", "7", "8", "9", "-", "0", "1" >> }

GuessRowsOf(columns) ==
    LET names == { columns[i] : i \in 1..Len(columns) }
    IN  { [ c \in names |-> IF c \in picked THEN cell ELSE PlainCell ] :
            picked \in { p \in SUBSET names :
                          Cardinality(p) <= (IF Len(columns) <= 3 THEN 2 ELSE 1) },
            cell \in ScoringCells }

GuessTables ==
    UNION { { [ columns |-> l, rows |-> rs ] : rs \in SeqsUpTo(GuessRowsOf(l), MaxGuessRows) } :
            l \in GuessLayouts }

AppColumns == << "ORIGEM", "CPF_CNPJ", "NOME", "E_MAIL", "REGIAO" >>

AppRows ==
    { [ ORIGEM |-> << "A" >>, CPF_CNPJ |-> << "1", "2", "3" >>, NOME |-> << "A", "n", "a" >>,
        E_MAIL |-> << "t", "e", "s", "t", "e", "@", "t", "e", "s", "t", "e", ".", "c", "o", "m" >>,
        REGIAO |-> << "S", "a", "o", " ", "P", "a", "u", "l", "o", "/", "S", "P" >> ],
      [ ORIGEM |-> << "A" >>, CPF_CNPJ |-> << "1", ".", "2", "-", "3" >>, NOME |-> << "A", "n", "a" >>,
        E_MAIL |-> << "a", "@", "b", ".", "c", "o" >>,
        REGIAO |-> << "R", "J" >> ],
      [ ORIGEM |-> << "B" >>, CPF_CNPJ |-> << "1", "2", "3" >>, NOME |-> << "B", "i", "a" >>,
        E_MAIL |-> << " ", "A", "@", "B", ".", "C", "O", "," >>,
        REGIAO |-> << >> ],
      [ ORIGEM |-> << "A" >>, CPF_CNPJ |-> << >>, NOME |-> << >>,
        E_MAIL |-> << "a", "@", "b", ".", "c", "o", " ", "," >>,
        REGIAO |-> << "x" >> ],
      [ ORIGEM |-> << "A" >>, CPF_CNPJ |-> << "4", "5" >>, NOME |-> << "E", "d", "u" >>,
        E_MAIL |-> << >>,
        REGIAO |-> << "S", "P" >> ],
      [ ORIGEM |-> << "B" >>, CPF_CNPJ |-> << "4", "5" >>, NOME |-> << "E", "d", "u" >>,
        E_MAIL |-> << "t", "e", "s", "t", "e" >>,
        REGIAO |-> << "/", "S", "P", "/", "X", "X", " ", "R", "J" >> ],
      [ ORIGEM |-> << "A" >>, CPF_CNPJ |-> << "4", "5" >>, NOME |-> << "E", "d", "u" >>,
        E_MAIL |-> << "a", "n", "a", "@", "g", "a", "m", "i", "l", ".", "c", "o", "m" >>,
        REGIAO |-> << >> ],
      [ ORIGEM |-> << "B" >>, CPF_CNPJ |-> << "4", "5" >>, NOME |-> << "E", "d", "u" >>,
        E_MAIL |-> << "a", "@", "t", "e", "s", "t", "e", ".", "c", "o", "m" >>,
        REGIAO |-> << >> ],
      [ ORIGEM |-> << "B" >>, CPF_CNPJ |-> << "6" >>, NOME |-> << "L", "e", "o" >>,
        E_MAIL |-> << "X", "@", "b", ".", "c", "o", "\n", "," >>,
        REGIAO |-> << >> ],
      [ ORIGEM |-> << "A" >>, CPF_CNPJ |-> << "1", "2", "3" >>, NOME |-> << "J", "o" >>,
        E_MAIL |-> << "j", "o", "@", "g", "m", "a", "i", "l" >>,
        REGIAO |-> << "S", "P" >> ] }

AppTables == { [ columns |-> AppColumns, rows |-> rs ] : rs \in SeqsUpTo(AppRows, MaxTableRows) }

FullMapping ==
    [ source |-> "ORIGEM", document |-> "CPF_CNPJ", name |-> "NOME",
      email |-> "E_MAIL", region |-> "REGIAO" ]
EmailOnlyMapping ==
    [ source |-> NoColumn, document |-> NoColumn, name |-> NoColumn,
      email |-> "E_MAIL", region |-> NoColumn ]
NoMapping ==
    [ source |-> NoColumn, document |-> NoColumn, name |-> NoColumn,
      email |-> NoColumn, region |-> NoColumn ]
Mappings == { FullMapping, EmailOnlyMapping, NoMapping }

-----------------------------------------------------------------------------
(* The interactive variant as a machine: upload, mapping, analysis         *)

AppInit ==
    /\ df = NoTable
    /\ mapping = NoMapping
    /\ result = NoResult

\* main, lines 868-893: a file is uploaded and read; the mapping select boxes
\* start at the guessed columns
ReadTable(t) ==
    /\ df = NoTable
    /\ df' = t
    /\ mapping' = guess_columns(t)
    /\ result' = NoResult

\* main, lines 888-895: the user changes the mapping select boxes
SelectMapping(m) ==
    /\ df # NoTable
    /\ m # mapping
    /\ mapping' = m
    /\ result' = NoResult
    /\ UNCHANGED df

\* main, lines 897-901: with an e-mail column selected, build_analysis runs
BuildAnalysis ==
    /\ df # NoTable
    /\ mapping.email # NoColumn
    /\ result = NoResult
    /\ result' = build_analysis(df, mapping)
    /\ UNCHANGED << df, mapping >>

-----------------------------------------------------------------------------
(* One e-mail value through each variant; one region text                  *)

EmStart(raw) ==
    [ raw |-> raw, call |-> "none",
      is_valid |-> FALSE,
      clean_email |-> << >>, email_is_valid |-> FALSE,
      E_MAIL_NORM |-> << >>, EMAIL_FORMATO_VALIDO |-> FALSE,
      SUSPEITO_RAZOES |-> << >>, classified |-> << >>, STATUS_EMAIL |-> "" ]

EmIdle == EmStart(<< >>)

\* is_valid_email(raw)
CallIsValidEmail ==
    /\ em.call = "none"
    /\ em' = [ em EXCEPT !.call = "is_valid_email", !.is_valid = is_valid_email(em.raw) ]

\* analyze on a row whose E-MAIL cell is raw
CallAnalyze ==
    \E t \in { treat_email(em.raw) } :
        /\ em.call = "none"
        /\ em' = [ em EXCEPT !.call = "analyze",
                             !.clean_email = t.clean_email,
                             !.email_is_valid = t.email_is_valid ]

OneCellTable(raw) ==
    [ columns |-> AppColumns,
      rows |-> << [ ORIGEM |-> << >>, CPF_CNPJ |-> << >>, NOME |-> << >>,
                    E_MAIL |-> raw, REGIAO |-> << >> ] >> ]

\* build_analysis on a one-row table whose e-mail cell is raw; `classified`
\* is the e-mail as classify_email normalises it again (line 348)
CallBuildAnalysis ==
    \E row \in { build_analysis(OneCellTable(em.raw), EmailOnlyMapping).base[1] } :
        /\ em.call = "none"
        /\ em' = [ em EXCEPT !.call = "build_analysis",
                             !.E_MAIL_NORM = row.E_MAIL_NORM,
                             !.EMAIL_FORMATO_VALIDO = row.EMAIL_FORMATO_VALIDO,
                             !.SUSPEITO_RAZOES = row.SUSPEITO_RAZOES,
                             !.classified = classify_normalize(row.E_MAIL_NORM),
                             !.STATUS_EMAIL = row.STATUS_EMAIL ]

RgStart(text) == [ text |-> text, called |-> FALSE, uf |-> << >> ]
RgIdle == RgStart(<< >>)

CallExtractUF ==
    /\ ~rg.called
    /\ rg' = [ rg EXCEPT !.called = TRUE, !.uf = extract_brazil_uf(rg.text) ]

-----------------------------------------------------------------------------
(* The interactive variant: one render of main per user interaction        *)

NoUpload == [ present |-> FALSE ]
NoFilters == [ stored |-> FALSE ]
NoExports == [ offered |-> FALSE ]
\* the mapping select boxes at their default index, the guessed columns
Guessed == [ guessed |-> TRUE ]

\* uploaded_file.name.lower().split(".")[-1]
RECURSIVE after_last_dot(_)
after_last_dot(s) == IF Contains(s, ".") THEN after_last_dot(AfterFirst(s, ".")) ELSE s

file_suffix(name) == after_last_dot(str_lower(name))

SupportedSuffixes == { << "c", "s", "v" >>, << "x", "l", "s", "x" >>, << "x", "l", "s" >> }

\* looks_like_no_header, lines 221-235, on the texts of the first line
looks_like_no_header(columns) ==
    LET known_headers == UNION { HEADER_ALIASES[f] : f \in DOMAIN HEADER_ALIASES }
        suspicious(col) ==
            LET text == str_lower(normalize_text(col))
            IN  (IF Contains(text, "@") THEN 1 ELSE 0)
                + (IF Len(digits_only(text)) \in { 11, 14 } THEN 1 ELSE 0)
    IN  IF \E i \in 1..Len(columns) : normalize_header(columns[i]) \in known_headers
        THEN FALSE
        ELSE \E i \in 1..Len(columns) : suspicious(columns[i]) > 0

\* f"col_{i + 1}" for the i-th column, counted from 0
synthetic_column(i) ==
    CASE i = 1 -> "col_1" [] i = 2 -> "col_2" [] i = 3 -> "col_3"
      [] i = 4 -> "col_4" [] i = 5 -> "col_5"

\* the names a column of an uploaded table can have, and the name whose
\* characters are a given text
ColumnUniverse ==
    { "ORIGEM", "CPF_CNPJ", "NOME", "E_MAIL", "REGIAO",
      "col_1", "col_2", "col_3", "col_4", "col_5" }
column_named(text) == CHOOSE c \in ColumnUniverse : column_text(c) = text

\* a variant of read_table that does not look at the suffix of the name
read_table_any_suffix(uploaded_file) ==
    IF ~uploaded_file.readable
    THEN [ error |-> "Exception", df |-> NoTable ]
    ELSE LET first == uploaded_file.first_line
             headerless == looks_like_no_header(first)
             columns ==
                 AsSeq([ i \in 1..Len(first) |->
                           IF headerless THEN synthetic_column(i)
                           ELSE column_named(normalize_text(first[i])) ])
             lines == IF headerless THEN << first >> \o uploaded_file.lines
                      ELSE uploaded_file.lines
         IN  [ error |-> NoError,
               df |-> [ columns |-> columns,
                        rows |-> AsSeq([ k \in 1..Len(lines) |->
                                           [ c \in SeqToSet(columns) |->
                                               lines[k][IndexIn(c, columns)] ] ]) ] ]

\* read_table, lines 245-268.  A file is its name, whether pandas can parse
\* its bytes, its first line and its other lines, each a list of cell texts.
\* The result is the exception raised, or NoError and the table.
read_table(uploaded_file) ==
    IF file_suffix(uploaded_file.name) \notin SupportedSuffixes
    THEN [ error |-> "ValueError", df |-> NoTable ]
    ELSE IF ~uploaded_file.readable
    THEN [ error |-> "Exception", df |-> NoTable ]
    ELSE LET first == uploaded_file.first_line
             headerless == looks_like_no_header(first)
             columns ==
                 AsSeq([ i \in 1..Len(first) |->
                           IF headerless THEN synthetic_column(i)
                           ELSE column_named(normalize_text(first[i])) ])
             lines == IF headerless THEN << first >> \o uploaded_file.lines
                      ELSE uploaded_file.lines
         IN  [ error |-> NoError,
               df |-> [ columns |-> columns,
                        rows |-> AsSeq([ k \in 1..Len(lines) |->
                                           [ c \in SeqToSet(columns) |->
                                               lines[k][IndexIn(c, columns)] ] ]) ] ]

\* main, lines 912-924: the rows of base the dashboard works on, the values
\* each select box offers and the filters of a fresh session
Todos == << "T", "o", "d", "o", "s" >>
Todas == << "T", "o", "d", "a", "s" >>

default_filters ==
    [ origem |-> Todos, regiao |-> Todas, familia |-> "Todas", status |-> "Todos",
      busca |-> << >> ]

dashboard_df_all_rows(base) == AsSeq([ i \in 1..Len(base) |-> i ])

dashboard_df(base) ==
    SelectSeq(AsSeq([ i \in 1..Len(base) |-> i ]), LAMBDA i : base[i].E_MAIL_NORM # << >>)

origem_opts(base) == { base[i].ORIGEM : i \in SeqToSet(dashboard_df(base)) } \ { << >> }
regiao_opts(base) == { base[i].REGIAO : i \in SeqToSet(dashboard_df(base)) } \ { << >> }
fam_opts(base) == { base[i].FAMILIA_DOMINIO : i \in SeqToSet(dashboard_df(base)) } \ { "" }
status_opts(base) == { base[i].STATUS_EMAIL : i \in SeqToSet(dashboard_df(base)) }

\* Series.str.contains(pattern): a regular-expression search.  The patterns
\* modelled are made of literal characters, of "." (any character but a line
\* feed) and of an unclosed "(", which does not compile.
regex_compiles(pattern) == ~Contains(pattern, "(")

regex_char_matches(p, c) == IF p = "." THEN c # "\n" ELSE p = c

regex_search(pattern, text) ==
    \E i \in 0..(Len(text) - Len(pattern)) :
        \A j \in 1..Len(pattern) : regex_char_matches(pattern[j], text[i + j])

\* main, lines 1024-1030: whether the search is applied, and raises
search_pattern(busca) == str_lower(str_strip(busca))
search_raises(busca) == str_strip(busca) # << >> /\ ~regex_compiles(search_pattern(busca))

\* main, lines 1015-1030: the rows of dashboard_df the active filters keep
apply_filters(base, active) ==
    SelectSeq(dashboard_df(base),
              LAMBDA i :
                  /\ (active.origem # Todos => base[i].ORIGEM = active.origem)
                  /\ (active.regiao # Todas => base[i].REGIAO = active.regiao)
                  /\ (active.familia # "Todas" => base[i].FAMILIA_DOMINIO = active.familia)
                  /\ (active.status # "Todos" => base[i].STATUS_EMAIL = active.status)
                  /\ (str_strip(active.busca) # << >> =>
                          \/ regex_search(search_pattern(active.busca), str_lower(base[i].NOME))
                          \/ regex_search(search_pattern(active.busca), base[i].E_MAIL_NORM)))

\* main, lines 1032-1033 and 1090-1092: the two totals of the first metric
\* row and the statuses the status chart counts, over the displayed rows
filtered_total_rows(rows) == Len(rows)

filtered_total_emails(base, rows) ==
    Len(SelectSeq(rows, LAMBDA i : base[i].E_MAIL_NORM # << >>))

status_counts(base, rows) == { base[i].STATUS_EMAIL : i \in SeqToSet(rows) }

\* main, lines 1409-1426: the tables behind the download buttons
export_tables(res) ==
    [ offered |-> TRUE,
      base_tratada |-> res.base,
      emails_unicos |-> res.unique_email_rows,
      emails_repetidos_linhas |-> res.repeated_rows,
      emails_repetidos_resumo |-> res.repeated_summary,
      emails_suspeitos |-> res.suspect_rows,
      emails_invalidos |-> res.invalid_rows ]

\* a variant of active_filters that falls back to the defaults at every render
\* without a form action
active_filters_forgetful(stored, button, choices) ==
    IF button = "clear" THEN default_filters
    ELSE IF button = "apply" THEN choices
    ELSE default_filters

\* main, lines 925-997: st.session_state["dashboard_filters"] once the form
\* was handled -- initialized when absent, replaced by "Limpar" and by
\* "Aplicar filtros", otherwise as stored
active_filters(stored, button, choices) ==
    IF button = "clear" THEN default_filters
    ELSE IF button = "apply" THEN choices
    ELSE IF stored = NoFilters THEN default_filters
    ELSE stored.filters

\* One run of main, lines 851-1426, as a function of what Streamlit hands it:
\* the uploaded file, the mapping select boxes (Guessed while they are at
\* their default index), the stored filters and the button pressed on the filter
\* form with the form's values.  The outcome is "info" (no file), "read_error"
\* (st.error after read_table raised), "email_prompt" (st.error asking for
\* the e-mail column), "dashboard" (rendered to the end) or "raised" (an
\* exception left main after the filter form).  "Limpar" stores the default
\* filters and reruns the script, which then renders with them.
render_main(uploaded_file, selected, stored, button, choices) ==
    LET stop(outcome, table, m) ==
            [ df |-> table, mapping |-> m, result |-> NoResult,
              session_filters |-> stored, filtered |-> << >>,
              exports |-> NoExports, ui |-> outcome ]
    IN  IF uploaded_file = NoUpload THEN stop("info", NoTable, NoMapping)
        ELSE LET read == read_table(uploaded_file)
             IN  IF read.error # NoError THEN stop("read_error", NoTable, NoMapping)
                 ELSE LET m == IF selected = Guessed THEN guess_columns(read.df) ELSE selected
                      IN  IF m.email = NoColumn THEN stop("email_prompt", read.df, m)
                          ELSE LET res == build_analysis(read.df, m)
                                   active == active_filters(stored, button, choices)
                                   session == [ stored |-> TRUE, filters |-> active ]
                               IN  IF search_raises(active.busca)
                                   THEN [ df |-> read.df, mapping |-> m, result |-> res,
                                          session_filters |-> session, filtered |-> << >>,
                                          exports |-> NoExports, ui |-> "raised" ]
                                   ELSE [ df |-> read.df, mapping |-> m, result |-> res,
                                          session_filters |-> session,
                                          filtered |-> apply_filters(res.base, active),
                                          exports |-> export_tables(res),
                                          ui |-> "dashboard" ]

\* what the user did on the filter form before a render
Submitted(button, choices) == [ button |-> button, choices |-> choices ]

DashInit ==
    /\ upload = NoUpload
    /\ session_filters = NoFilters
    /\ submitted = Submitted("none", default_filters)
    /\ filtered = << >>
    /\ exports = NoExports
    /\ ui = "info"

\* the state a render leaves
Rendered(uploaded_file, button, choices, out) ==
    /\ upload' = uploaded_file
    /\ submitted' = Submitted(button, choices)
    /\ df' = out.df
    /\ mapping' = out.mapping
    /\ result' = out.result
    /\ session_filters' = out.session_filters
    /\ filtered' = out.filtered
    /\ exports' = out.exports
    /\ ui' = out.ui

\* the user uploads a file: the mapping select boxes start at the guess, or
\* keep the user's selection when the new table has the columns of the last
UploadFile(file) ==
    \E selected \in { Guessed } \cup
                     { m \in { mapping } : df # NoTable /\ read_table(file).df.columns = df.columns } :
        Rendered(file, "none", default_filters,
                 render_main(file, selected, session_filters, "none", default_filters))

\* the user removes the file from the uploader
RemoveFile ==
    /\ upload # NoUpload
    /\ Rendered(NoUpload, "none", default_filters,
                 render_main(NoUpload, Guessed, session_filters, "none", default_filters))

\* the user changes a mapping select box
ChangeMapping(m) ==
    /\ ui \in { "email_prompt", "dashboard", "raised" }
    /\ m # mapping
    /\ Rendered(upload, "none", default_filters,
                 render_main(upload, m, session_filters, "none", default_filters))

\* the user presses "Aplicar filtros" with the form holding choices
ApplyFilters(choices) ==
    /\ ui \in { "dashboard", "raised" }
    /\ Rendered(upload, "apply", choices,
                 render_main(upload, mapping, session_filters, "apply", choices))

\* the user presses "Limpar"
ClearFilters ==
    /\ ui \in { "dashboard", "raised" }
    /\ Rendered(upload, "clear", default_filters,
                 render_main(upload, mapping, session_filters, "clear", default_filters))

\* Uploads.  The rows are those of a table with the five expected columns; a
\* file without a header row starts with a row whose e-mail cell holds "@",
\* which is what looks_like_no_header detects.  Column names are distinct.
MaxDashRows == 2

DashRows ==
    { << << "A" >>, << "1", "2", "3" >>, << "A", "n", "a" >>,
         << "a", "@", "b", ".", "c", "o" >>, << "S", "P" >> >>,
      << << "B" >>, << "4", "5" >>, << "J", "o" >>,
         << "J", "O", "@", "g", "m", "a", "i", "l", ".", "c", "o", "m" >>, << "R", "J" >> >>,
      << << "B" >>, << "6" >>, << "B", "i", "a" >>, << >>, << >> >> }
\* the rows that hold an e-mail
DashEmailRows == { r \in DashRows : r[4] # << >> }

HeaderLine ==
    << << "O", "R", "I", "G", "E", "M" >>, << "C", "P", "F", "_", "C", "N", "P", "J" >>,
       << " ", "N", "O", "M", "E", " " >>, << "E", "_", "M", "A", "I", "L" >>,
       << "R", "E", "G", "I", "A", "O" >> >>
NameOnlyLine == << << "N", "O", "M", "E" >> >>

FileNameCsv == << "b", "a", "s", "e", ".", "c", "s", "v" >>
FileNameXls == << "B", "a", "s", "e", ".", "v", "1", ".", "X", "L", "S" >>
FileNameTxt == << "b", "a", "s", "e", ".", "c", "s", "v", ".", "t", "x", "t" >>

NonEmptySeqsUpTo(rows, n) == SeqsUpTo(rows, n) \ { << >> }

DashFiles ==
    { [ name |-> FileNameCsv, readable |-> TRUE, first_line |-> HeaderLine, lines |-> ls ] :
        ls \in NonEmptySeqsUpTo(DashEmailRows, MaxDashRows)
                 \cup { << r, q >> : r \in DashRows \ DashEmailRows, q \in DashEmailRows } }
    \cup
    { [ name |-> FileNameXls, readable |-> TRUE, first_line |-> first, lines |-> ls ] :
        first \in { r \in DashRows : Contains(r[4], "@") /\ r[1] = << "B" >> },
        ls \in { << >> } \cup { << r >> : r \in DashEmailRows } }
    \cup
    { [ name |-> FileNameCsv, readable |-> TRUE, first_line |-> NameOnlyLine,
        lines |-> << << << "A", "n", "a" >> >> >> ],
      [ name |-> FileNameTxt, readable |-> TRUE, first_line |-> HeaderLine,
        lines |-> << CHOOSE r \in DashRows : r[4] = << >> >> ],
      [ name |-> FileNameCsv, readable |-> FALSE, first_line |-> << >>, lines |-> << >> ] }

\* the mappings the user moves the select boxes to
DashMappings(m) ==
    { [ m EXCEPT !.email = NoColumn ],
      [ m EXCEPT !.name = NoColumn, !.region = NoColumn ] }

SearchInputs ==
    { << >>, << " ", "J", "O", " " >>, << "a", ".", "b" >>, << "(" >> }

\* the values the filter form is submitted with: any search text of
\* SearchInputs, and at most one select box moved off "Todos"/"Todas" to one
\* of the values it offers
FilterChoices(base) ==
    { c \in [ origem : { Todos } \cup origem_opts(base),
              regiao : { Todas } \cup regiao_opts(base),
              familia : { "Todas" } \cup fam_opts(base),
              status : { "Todos" } \cup status_opts(base),
              busca : SearchInputs ] :
        Cardinality({ k \in { "origem", "regiao", "familia", "status" } :
                        c[k] # default_filters[k] }) <= 1 }

\* the dashboard over any sequence of uploads, mapping changes and filter
\* submissions
InitDash == BatchInit /\ AppInit /\ DashInit /\ em = EmIdle /\ rg = RgIdle
NextDash ==
    \/ \E file \in DashFiles : UploadFile(file) /\ UNCHANGED << em, rg, batch_vars >>
    \/ RemoveFile /\ UNCHANGED << em, rg, batch_vars >>
    \/ \E m \in DashMappings(mapping) : ChangeMapping(m) /\ UNCHANGED << em, rg, batch_vars >>
    \/ /\ result # NoResult
       /\ \E choices \in FilterChoices(result.base) :
              ApplyFilters(choices) /\ UNCHANGED << em, rg, batch_vars >>
    \/ ClearFilters /\ UNCHANGED << em, rg, batch_vars >>
SpecDash == InitDash /\ [][NextDash]_vars

-----------------------------------------------------------------------------
(* Specifications                                                          *)

\* the batch run over any stream of at most MaxRows rows
InitBatch == BatchInit /\ AppInit /\ DashInit /\ em = EmIdle /\ rg = RgIdle
NextBatch ==
    \/ \E file \in InputFiles, dir \in OutputDirs :
           MainAnalyze(file, dir) /\ UNCHANGED << em, rg, app_vars, dash_vars >>
    \/ \E row \in BatchRows :
           total_rows < MaxRows /\ ProcessRow(row) /\ UNCHANGED << em, rg, app_vars, dash_vars >>
    \/ FinishAnalyze /\ UNCHANGED << em, rg, app_vars, dash_vars >>
SpecBatch == InitBatch /\ [][NextBatch]_vars

\* the batch run over streams long enough for the cut of the rankings: the
\* k-th row has its own document, taxpayer and e-mail, except for at most one
\* row of the stream, which has no e-mail, or has no document and no taxpayer
InitRank == BatchInit /\ AppInit /\ DashInit /\ em = EmIdle /\ rg = RgIdle
NextRank ==
    \/ \E dir \in OutputDirs : MainAnalyze(RankFile, dir) /\ UNCHANGED << em, rg, app_vars, dash_vars >>
    \/ \E row \in RankRows(total_rows + 1, treated) :
           total_rows < MaxRankRows /\ ProcessRow(row) /\ UNCHANGED << em, rg, app_vars, dash_vars >>
    \/ FinishAnalyze /\ UNCHANGED << em, rg, app_vars, dash_vars >>
SpecRank == InitRank /\ [][NextRank]_vars

\* the dashboard over any uploaded table of at most MaxTableRows rows
InitApp == BatchInit /\ AppInit /\ DashInit /\ em = EmIdle /\ rg = RgIdle
NextApp ==
    \/ \E t \in AppTables : ReadTable(t) /\ UNCHANGED << em, rg, batch_vars, dash_vars >>
    \/ \E m \in Mappings : SelectMapping(m) /\ UNCHANGED << em, rg, batch_vars, dash_vars >>
    \/ BuildAnalysis /\ UNCHANGED << em, rg, batch_vars, dash_vars >>
SpecApp == InitApp /\ [][NextApp]_vars

\* every table of GuessTables read, with the mapping guess_columns proposes
InitGuess == BatchInit /\ AppInit /\ DashInit /\ em = EmIdle /\ rg = RgIdle
NextGuess == \E t \in GuessTables : ReadTable(t) /\ UNCHANGED << em, rg, batch_vars, dash_vars >>
SpecGuess == InitGuess /\ [][NextGuess]_vars

\* every e-mail value of EmailInputs through one of the three entry points
InitEmail == BatchInit /\ AppInit /\ DashInit /\ rg = RgIdle /\ em \in { EmStart(raw) : raw \in EmailInputs }
NextEmail ==
    \/ CallIsValidEmail /\ UNCHANGED << rg, batch_vars, app_vars, dash_vars >>
    \/ CallAnalyze /\ UNCHANGED << rg, batch_vars, app_vars, dash_vars >>
    \/ CallBuildAnalysis /\ UNCHANGED << rg, batch_vars, app_vars, dash_vars >>
SpecEmail == InitEmail /\ [][NextEmail]_vars

\* every region text of RegionInputs through extract_brazil_uf
InitUF == BatchInit /\ AppInit /\ DashInit /\ em = EmIdle /\ rg \in { RgStart(t) : t \in RegionInputs }
NextUF == CallExtractUF /\ UNCHANGED << em, batch_vars, app_vars, dash_vars >>
SpecUF == InitUF /\ [][NextUF]_vars

-----------------------------------------------------------------------------
(* Properties of the batch pass                                            *)

\* the identity tuple the duplicate rule speaks of: the three text cells
\* trimmed, the e-mail cell trimmed and lower-cased (an absent cell is empty)
TrimmedCell(cell) == IF cell = None THEN << >> ELSE str_strip(cell)
IdentityTuple(row) ==
    << TrimmedCell(row.NOME_CREDOR), TrimmedCell(row.CPF_CNPJ),
       TrimmedCell(row.NOME_CONTRIBUINTE), str_lower(TrimmedCell(row.E_MAIL)) >>

HasEarlierTwin(i) ==
    \E j \in 1..(i - 1) : IdentityTuple(treated[j].row) = IdentityTuple(treated[i].row)

FlaggedRows == { i \in 1..Len(treated) : treated[i].LINHA_DUPLICADA_EXATA = "SIM" }

\* the duplicate listing holds exactly the flagged rows, in row order, each
\* under its line number in the input file (the header is line 1)
ListsFlaggedRows(listing) ==
    /\ Len(listing) = Cardinality(FlaggedRows)
    /\ \A k \in 1..Len(listing) :
           /\ listing[k].LINHA_CSV - 1 \in FlaggedRows
           /\ << listing[k].NOME_CREDOR, listing[k].CPF_CNPJ,
                 listing[k].NOME_CONTRIBUINTE, listing[k].E_MAIL_TRATADO >>
              = IdentityTuple(treated[listing[k].LINHA_CSV - 1].row)
           /\ \A l \in 1..(k - 1) : listing[l].LINHA_CSV < listing[k].LINHA_CSV

\* C1: in the batch pass a row is flagged LINHA_DUPLICADA_EXATA=SIM iff an
\* earlier row of the stream has the same identity tuple (so the first
\* occurrence of a tuple is never flagged and every later one is), and the
\* flagged rows are exactly the rows listed in linhas_duplicadas_exatas.csv.
C1_DuplicateIffEarlierTwin ==
    /\ \A i \in 1..Len(treated) :
           (treated[i].LINHA_DUPLICADA_EXATA = "SIM") <=> HasEarlierTwin(i)
    /\ \A i \in 1..Len(treated) : treated[i].LINHA_DUPLICADA_EXATA \in { "SIM", "NAO" }
    /\ ListsFlaggedRows(duplicate_rows)
    /\ (bpc = "done" => /\ reports.written
                        /\ ListsFlaggedRows(reports.linhas_duplicadas_exatas))

\* three rows of one identity, written differently: the first is not flagged,
\* the two later ones are, and the listing is written
C1_Witness ==
    /\ bpc = "done"
    /\ Len(treated) = 3
    /\ treated[1].row # treated[2].row
    /\ IdentityTuple(treated[1].row) = IdentityTuple(treated[2].row)
    /\ IdentityTuple(treated[1].row) = IdentityTuple(treated[3].row)
    /\ treated[1].LINHA_DUPLICADA_EXATA = "NAO"
    /\ treated[2].LINHA_DUPLICADA_EXATA = "SIM"
    /\ treated[3].LINHA_DUPLICADA_EXATA = "SIM"
    /\ Len(reports.linhas_duplicadas_exatas) = 2

Occurrences(tuple) ==
    Cardinality({ i \in 1..Len(treated) : IdentityTuple(treated[i].row) = tuple })

RECURSIVE SumOfRepeats(_)
SumOfRepeats(tuples) ==
    IF tuples = {} THEN 0
    ELSE LET t == CHOOSE x \in tuples : TRUE
         IN  (Occurrences(t) - 1) + SumOfRepeats(tuples \ { t })

DistinctTuples == { IdentityTuple(treated[i].row) : i \in 1..Len(treated) }

\* C2: after any prefix of the stream, duplicate_exact_rows is the sum over the
\* distinct identity tuples of (occurrences so far - 1), which is total_rows
\* minus the size of seen_exact_rows; the summary returned reports that value.
C2_DuplicateCount ==
    /\ total_rows = Len(treated)
    /\ duplicate_exact_rows = SumOfRepeats(DistinctTuples)
    /\ duplicate_exact_rows + Cardinality(seen_exact_rows) = total_rows
    /\ (bpc = "done" => /\ summary.returned
                        /\ summary.duplicate_exact_rows = SumOfRepeats(DistinctTuples))

\* two distinct tuples, one of them seen twice, and the summary returned
C2_Witness ==
    /\ bpc = "done"
    /\ total_rows = 3
    /\ Cardinality(DistinctTuples) = 2
    /\ summary.duplicate_exact_rows = 1

\* the whole of e has the shape local@domain.tld: local one-or-more of
\* letters/digits/._%+-, domain one-or-more of letters/digits/.-, and a final
\* label of two or more letters only
ShapeLocalChars == AsciiLetters \cup AsciiDigits \cup { ".", "_", "%", "+", "-" }
ShapeDomainChars == AsciiLetters \cup AsciiDigits \cup { ".", "-" }
HasEmailShape(e) ==
    \E a \in 2..Len(e) :
        /\ e[a] = "@"
        /\ \A i \in 1..(a - 1) : e[i] \in ShapeLocalChars
        /\ \E d \in (a + 2)..(Len(e) - 2) :
               /\ e[d] = "."
               /\ \A i \in (a + 1)..(d - 1) : e[i] \in ShapeDomainChars
               /\ \A i \in (d + 1)..Len(e) : e[i] \in AsciiLetters

RawEmail(row) == IF row.E_MAIL = None THEN << >> ELSE row.E_MAIL
TrimLower(raw) == str_lower(str_strip(raw))

ValidRowsOfDomain(d) ==
    { i \in 1..Len(treated) :
        /\ treated[i].EMAIL_VALIDO = "SIM"
        /\ AfterFirst(TrimLower(RawEmail(treated[i].row)), "@") = d }

ValidDomains ==
    { AfterFirst(TrimLower(RawEmail(treated[i].row)), "@") :
        i \in { j \in 1..Len(treated) : treated[j].EMAIL_VALIDO = "SIM" } }

JoaoRaw == << " ", "J", "O", "A", "O", "@", "G", "M", "A", "I", "L", ".", "C", "O", "M", " " >>
JoaoClean == << "j", "o", "a", "o", "@", "g", "m", "a", "i", "l", ".", "c", "o", "m" >>
GmailCom == << "g", "m", "a", "i", "l", ".", "c", "o", "m" >>

\* C3: every treated row carries EMAIL_TRATADO = the E-MAIL value trimmed and
\* lower-cased, and EMAIL_VALIDO = SIM iff that string is non-empty and has the
\* e-mail shape; the count of a domain is the number of rows with
\* EMAIL_VALIDO = SIM whose e-mail has that domain after its first "@"
\* (" JOAO@GMAIL.COM " gives joao@gmail.com, SIM, and a count under gmail.com).
C3_TreatedEmailColumns ==
    /\ \A i \in 1..Len(treated) :
           LET e == TrimLower(RawEmail(treated[i].row))
           IN  /\ treated[i].EMAIL_TRATADO = e
               /\ (treated[i].EMAIL_VALIDO = "SIM") <=> (e # << >> /\ HasEmailShape(e))
               /\ treated[i].EMAIL_VALIDO \in { "SIM", "NAO" }
               /\ (RawEmail(treated[i].row) = JoaoRaw =>
                       /\ treated[i].EMAIL_TRATADO = JoaoClean
                       /\ treated[i].EMAIL_VALIDO = "SIM"
                       /\ CounterGet(domain_counter, GmailCom) >= 1)
    /\ CounterKeys(domain_counter) = ValidDomains
    /\ \A d \in ValidDomains : CounterGet(domain_counter, d) = Cardinality(ValidRowsOfDomain(d))
    /\ (bpc = "done" /\ Cardinality(ValidDomains) <= TopN =>
            \A d \in ValidDomains :
                \E k \in 1..Len(reports.top_dominios) :
                    /\ reports.top_dominios[k].key = d
                    /\ reports.top_dominios[k].n = Cardinality(ValidRowsOfDomain(d)))

\* the stream is the single row with " JOAO@GMAIL.COM ": joao@gmail.com, SIM,
\* and gmail.com written to top_dominios with count 1
C3_Witness ==
    /\ bpc = "done"
    /\ Len(treated) = 1
    /\ RawEmail(treated[1].row) = JoaoRaw
    /\ treated[1].EMAIL_TRATADO = JoaoClean
    /\ treated[1].EMAIL_VALIDO = "SIM"
    /\ reports.top_dominios = << [ key |-> GmailCom, n |-> 1 ] >>

-----------------------------------------------------------------------------
(* Properties of the interactive variant                                   *)

\* the status the rule order of the claim gives a row
StatusByCascade(r) ==
    IF r.E_MAIL_NORM = << >> THEN "Sem email"
    ELSE IF ~r.EMAIL_FORMATO_VALIDO THEN "Invalido"
    ELSE IF r.SUSPEITO_RAZOES # << >> THEN "Suspeito"
    ELSE IF r.QTD_REPETICOES_EMAIL > 1 THEN "Repetido"
    ELSE "Unico limpo"

\* C4: in build_analysis the STATUS_EMAIL of every row is "Sem email" iff its
\* normalized e-mail is empty, otherwise "Invalido" iff it fails the format
\* check, otherwise "Suspeito" iff it has a classification reason, otherwise
\* "Repetido" iff its repetition count is above 1, otherwise "Unico limpo".
C4_StatusCascade ==
    result.built =>
        \A i \in 1..Len(result.base) :
            result.base[i].STATUS_EMAIL = StatusByCascade(result.base[i])

\* a row that is repeated, has a reason and fails the format check ("Invalido"
\* wins over both), next to a row with no e-mail
C4_Witness ==
    /\ result.built
    /\ \E i \in 1..Len(result.base) :
           /\ result.base[i].QTD_REPETICOES_EMAIL > 1
           /\ result.base[i].SUSPEITO_RAZOES # << >>
           /\ result.base[i].E_MAIL_NORM # << >>
           /\ ~result.base[i].EMAIL_FORMATO_VALIDO
           /\ result.base[i].STATUS_EMAIL = "Invalido"
    /\ \E i \in 1..Len(result.base) : result.base[i].STATUS_EMAIL = "Sem email"

LocalPart(e) == IF Contains(e, "@") THEN BeforeFirst(e, "@") ELSE e
DomainPart(e) == IF Contains(e, "@") THEN AfterFirst(e, "@") ELSE << >>
IsPlaceholder(e) ==
    e # << >> /\ (LocalPart(e) \in PLACEHOLDER_LOCALS \/ DomainPart(e) \in PLACEHOLDER_DOMAINS)

TesteAtTeste == << "t", "e", "s", "t", "e", "@", "t", "e", "s", "t", "e", ".", "c", "o", "m" >>

\* C5: a row whose normalized e-mail has its local part in the placeholder-local
\* list or its domain in the placeholder-domain list carries the reason
\* placeholder_lixo; when the e-mail also passes the format check its status is
\* "Suspeito", whatever its repetition count.
C5_PlaceholderIsSuspect ==
    result.built =>
        \A i \in 1..Len(result.base) :
            LET r == result.base[i]
            IN  IsPlaceholder(r.E_MAIL_NORM) =>
                    /\ \E k \in 1..Len(r.SUSPEITO_RAZOES) : r.SUSPEITO_RAZOES[k] = "placeholder_lixo"
                    /\ (r.EMAIL_FORMATO_VALIDO => r.STATUS_EMAIL = "Suspeito")

\* teste@teste.com on two rows (count 2) and an address with only its domain in
\* the list on a third (count 1): all three "Suspeito"
C5_Witness ==
    /\ result.built
    /\ Len(result.base) = 3
    /\ \A i \in 1..3 : result.base[i].STATUS_EMAIL = "Suspeito"
    /\ \E i \in 1..3 : /\ result.base[i].E_MAIL_NORM = TesteAtTeste
                       /\ result.base[i].QTD_REPETICOES_EMAIL = 2
    /\ \E i \in 1..3 : /\ result.base[i].QTD_REPETICOES_EMAIL = 1
                       /\ LocalPart(result.base[i].E_MAIL_NORM) \notin PLACEHOLDER_LOCALS
                       /\ DomainPart(result.base[i].E_MAIL_NORM) \in PLACEHOLDER_DOMAINS

-----------------------------------------------------------------------------
(* Properties of the e-mail functions                                      *)

\* C6: for every string e, is_valid_email(e) is true iff the whole of e has
\* the shape local@domain.tld, the final label being two or more letters.
C6_ValidIffWholeShape ==
    em.call = "is_valid_email" => (em.is_valid <=> HasEmailShape(em.raw))

\* C7: normalizing an already-normalized e-mail returns the same string, for
\* the batch normalize_email and for the interactive E_MAIL_NORM derivation
\* (whose result classify_email normalizes again).
C7_NormalizationIdempotent ==
    /\ em.call = "analyze" => normalize_email(em.clean_email) = em.clean_email
    /\ em.call = "build_analysis" =>
           /\ email_norm(em.E_MAIL_NORM) = em.E_MAIL_NORM
           /\ em.classified = em.E_MAIL_NORM

TrimLowerNoComma(raw) == str_rstrip_comma(str_lower(str_strip(raw)))

ABComComma == << "a", "@", "b", ".", "c", "o", "m", "," >>
ABCom == << "a", "@", "b", ".", "c", "o", "m" >>

-----------------------------------------------------------------------------
(* Properties of extract_brazil_uf                                         *)

WordChars == AsciiLetters \cup AsciiDigits \cup { "_" }

\* two upper-case letters at i, i+1 of s with no word character after them
CodeEndsAt(s, i) ==
    /\ i >= 1 /\ i + 1 <= Len(s)
    /\ s[i] \in AsciiUpper /\ s[i + 1] \in AsciiUpper
    /\ (i + 2 <= Len(s) => s[i + 2] \notin WordChars)

\* the standalone two-letter codes of the upper-cased, de-accented text
StandaloneCodes(s) ==
    { SubSeq(s, i, i + 1) :
        i \in { j \in 1..Len(s) : CodeEndsAt(s, j) /\ (j > 1 => s[j - 1] \notin WordChars) } }

SaoPauloSP == << "S", "a", "o", " ", "P", "a", "u", "l", "o", "/", "S", "P" >>
RegiaoDesconhecida == << "r", "e", "g", "i", "a", "o", " ", "d", "e", "s", "c", "o", "n", "h", "e", "c", "i", "d", "a" >>
CodeSP == << "S", "P" >>

\* C9: extract_brazil_uf returns the empty string or one of the 27 state
\* codes, never another two-letter token; a text with no valid standalone
\* two-letter code gives the empty string ("regiao desconhecida"), and
\* "Sao Paulo/SP" gives "SP".
C9_OnlyValidCodes ==
    rg.called =>
        /\ rg.uf = << >> \/ rg.uf \in BRAZIL_UFS
        /\ Cardinality(BRAZIL_UFS) = 27
        /\ (StandaloneCodes(uf_normalized(rg.text)) \cap BRAZIL_UFS = {} => rg.uf = << >>)
        /\ (rg.text = SaoPauloSP => rg.uf = CodeSP)
        /\ (rg.text = RegiaoDesconhecida => rg.uf = << >>)

C9_Witness == rg.called /\ rg.text = SaoPauloSP /\ rg.uf = CodeSP

\* the positions p of a "/" that is followed, after optional whitespace, by a
\* two-letter code, paired with the position of the code
SlashHits(s) ==
    { h \in (1..Len(s)) \X (1..Len(s)) :
        /\ h[1] < h[2]
        /\ s[h[1]] = "/"
        /\ \A j \in (h[1] + 1)..(h[2] - 1) : s[j] \in Whitespace
        /\ CodeEndsAt(s, h[2]) }

CodesAfterSlash(s) == { SubSeq(s, h[2], h[2] + 1) : h \in SlashHits(s) }

LastCodeAfterSlash(s) ==
    LET h == CHOOSE x \in SlashHits(s) : \A y \in SlashHits(s) : y[1] <= x[1]
    IN  SubSeq(s, h[2], h[2] + 1)

\* the code the text ends with (trailing whitespace aside), as a set
CodeAtEnd(s) ==
    { SubSeq(s, i, i + 1) :
        i \in { j \in 1..Len(s) :
                  /\ CodeEndsAt(s, j)
                  /\ (j > 1 => s[j - 1] \notin WordChars)
                  /\ \A k \in (j + 2)..Len(s) : s[k] \in Whitespace } }

\* C10 as stated: whenever the text has a valid state code right after a "/",
\* the result is a code that follows a "/".
C10_PrefersAnySlashCode ==
    rg.called =>
        LET s == uf_normalized(rg.text)
        IN  CodesAfterSlash(s) \cap BRAZIL_UFS # {} => rg.uf \in CodesAfterSlash(s) \cap BRAZIL_UFS

\* C10: extract_brazil_uf looks at the LAST two-letter code that follows a "/":
\* when that code is a valid state code it is the result; a code at the end of
\* the text, or the last valid two-letter token elsewhere, is the result only
\* when no code follows a "/" or the last one that does is not a state code.
C10_PrefersLastSlashCode ==
    rg.called =>
        LET s == uf_normalized(rg.text)
            last_is_valid == SlashHits(s) # {} /\ LastCodeAfterSlash(s) \in BRAZIL_UFS
        IN  /\ last_is_valid => rg.uf = LastCodeAfterSlash(s)
            /\ (~last_is_valid /\ CodeAtEnd(s) \cap BRAZIL_UFS # {}) => rg.uf \in CodeAtEnd(s)
            /\ (~last_is_valid /\ CodeAtEnd(s) \cap BRAZIL_UFS = {}) =>
                   rg.uf \in (StandaloneCodes(s) \cap BRAZIL_UFS) \cup { << >> }

\* "/XX/SP RJ": the last code after a "/" is SP, a state code, and it wins over
\* the RJ the text ends with
C10_Witness ==
    /\ rg.called
    /\ rg.text = << "/", "X", "X", "/", "S", "P", " ", "R", "J" >>
    /\ rg.uf = CodeSP

-----------------------------------------------------------------------------
(* Properties of guess_columns                                             *)

Roles == { "source", "document", "name", "email", "region" }

\* the columns of the loaded table whose header is an alias of the role
AliasColumns(role) ==
    { i \in 1..Len(df.columns) : normalize_header(column_text(df.columns[i])) \in HEADER_ALIASES[role] }

NoAliasMatched == \A role \in Roles : AliasColumns(role) = {}

\* how many rows of the loaded table look like the role in column col
LooksLike(role, cell) ==
    CASE role = "email" -> \E i \in 1..Len(cell) : cell[i] = "@"
      [] role = "document" -> Len(digits_only(cell)) = 11 \/ Len(digits_only(cell)) = 14
      [] role = "name" -> /\ \E i \in 1..Len(cell) : cell[i] = " "
                          /\ \E i \in 1..Len(cell) : cell[i] \in AsciiLetters
Hits(role, col) ==
    Cardinality({ i \in 1..Len(df.rows) : LooksLike(role, str_strip(df.rows[i][col])) })

ColumnNames == { df.columns[i] : i \in 1..Len(df.columns) }

\* C11: when no header is an alias of any role and the table has at least 5
\* columns, the roles source, document, name, email, region get columns 1..5
\* whatever the contents; otherwise the positional assignment is not used: a
\* role among email, document, name with an alias match gets its first matching
\* column, and an unresolved one gets a column of the highest score when that
\* score is above 0 and no selection when every score is 0.
C11_GuessCascade ==
    df # NoTable =>
        IF NoAliasMatched /\ Len(df.columns) >= 5
        THEN mapping = [ source |-> df.columns[1], document |-> df.columns[2],
                         name |-> df.columns[3], email |-> df.columns[4],
                         region |-> df.columns[5] ]
        ELSE \A role \in { "email", "document", "name" } :
                 IF AliasColumns(role) # {}
                 THEN /\ mapping[role] \in ColumnNames
                      /\ \E i \in AliasColumns(role) :
                             /\ df.columns[i] = mapping[role]
                             /\ \A j \in AliasColumns(role) : i <= j
                 ELSE IF \E col \in ColumnNames : Hits(role, col) > 0
                 THEN /\ mapping[role] \in ColumnNames
                      /\ \A col \in ColumnNames : Hits(role, col) <= Hits(role, mapping[role])
                 ELSE mapping[role] = NoColumn

\* five columns with no alias and an e-mail cell in the first: the e-mail role
\* still goes to the fourth column
C11_Witness ==
    /\ df # NoTable
    /\ Len(df.columns) = 5
    /\ NoAliasMatched
    /\ Hits("email", df.columns[1]) > 0
    /\ Hits("email", df.columns[4]) = 0
    /\ mapping.email = df.columns[4]
    /\ mapping.source = df.columns[1]

-----------------------------------------------------------------------------
(* Properties of the aggregates                                            *)

\* the rows of the analysis whose e-mail is format-valid and has domain d
ValidBaseRowsOfDomain(d) ==
    { i \in 1..Len(result.base) :
        /\ result.base[i].E_MAIL_NORM # << >>
        /\ result.base[i].EMAIL_FORMATO_VALIDO
        /\ Contains(result.base[i].E_MAIL_NORM, "@")
        /\ AfterFirst(result.base[i].E_MAIL_NORM, "@") = d }

\* C12: top_domains of build_analysis counts, per domain, only the rows whose
\* e-mail is format-valid; a row whose non-empty e-mail fails the format check
\* adds to no domain count.
C12_TopDomainsCountValidOnly ==
    result.built =>
        \A k \in 1..Len(result.top_domains) :
            result.top_domains[k].n = Cardinality(ValidBaseRowsOfDomain(result.top_domains[k].key))

RECURSIVE SumOfCounts(_)
SumOfCounts(c) == IF c = << >> THEN 0 ELSE Head(c).n + SumOfCounts(Tail(c))

ValidTreatedRows == { i \in 1..Len(treated) : treated[i].EMAIL_VALIDO = "SIM" }

\* C13: in the batch pass, after any prefix of the stream, the per-domain counts
\* add up to the number of rows so far whose normalized e-mail is valid, which
\* is total_rows - missing_emails - invalid_emails, and no count is kept under
\* an empty domain.
C13_DomainCountsSumToValidRows ==
    /\ SumOfCounts(domain_counter) = Cardinality(ValidTreatedRows)
    /\ SumOfCounts(domain_counter) = total_rows - missing_emails - invalid_emails
    /\ << >> \notin CounterKeys(domain_counter)
    /\ \A k \in 1..Len(domain_counter) : domain_counter[k].n >= 1

\* three rows read: two valid ones of one domain next to an invalid one
C13_Witness ==
    /\ total_rows = 3
    /\ invalid_emails = 1
    /\ missing_emails = 0
    /\ Len(domain_counter) = 1
    /\ domain_counter[1].n = 2

\* the document id of a batch row with every non-digit character removed
DocDigits(row) == digits_only(TrimmedCell(row.CPF_CNPJ))

RowsOfDocument(d) == { i \in 1..Len(treated) : DocDigits(treated[i].row) = d }

ValidEmailsOfDocument(d) ==
    { treated[i].EMAIL_TRATADO : i \in { j \in RowsOfDocument(d) : treated[j].EMAIL_VALIDO = "SIM" } }

OneEntryPerDocument(ranking) ==
    \A k, l \in 1..Len(ranking) :
        digits_only(ranking[k].key) = digits_only(ranking[l].key) => k = l

\* the distinct format-valid e-mails of the analysis rows of document d
ValidEmailsOfClient(d) ==
    { result.base[i].E_MAIL_NORM :
        i \in { j \in 1..Len(result.base) :
                  /\ result.base[j].CPF_CNPJ_NORM = d
                  /\ result.base[j].E_MAIL_NORM # << >>
                  /\ result.base[j].EMAIL_FORMATO_VALIDO } }

Clients == { result.base[i].CPF_CNPJ_NORM : i \in 1..Len(result.base) } \ { << >> }

\* C14: the per-document aggregates group the rows by the document id with its
\* non-digit characters removed and count the distinct valid e-mails of each
\* group: in the batch reports two ids that differ only in punctuation share
\* one entry, and the interactive metrics count a document as having several
\* e-mails by its distinct valid e-mails.
C14_DocumentsGroupedByDigits ==
    /\ bpc = "done" =>
           /\ OneEntryPerDocument(reports.top_documentos_por_linhas)
           /\ OneEntryPerDocument(reports.top_documentos_por_emails_unicos)
           /\ \A k \in 1..Len(reports.top_documentos_por_linhas) :
                  LET e == reports.top_documentos_por_linhas[k]
                  IN  e.n = Cardinality(RowsOfDocument(digits_only(e.key)))
           /\ \A k \in 1..Len(reports.top_documentos_por_emails_unicos) :
                  LET e == reports.top_documentos_por_emails_unicos[k]
                  IN  e.n = Cardinality(ValidEmailsOfDocument(digits_only(e.key)))
    /\ result.built =>
           /\ result.metrics.unique_clients = Cardinality(Clients)
           /\ result.metrics.clients_multi_email =
                  Cardinality({ d \in Clients : Cardinality(ValidEmailsOfClient(d)) > 1 })

\* a ranking is ordered by count descending and, among equal counts, by key
\* ascending
RankedByCountThenKey(ranking) ==
    \A k, l \in 1..Len(ranking) :
        k < l => \/ ranking[k].n > ranking[l].n
                 \/ ranking[k].n = ranking[l].n /\ str_less(ranking[k].key, ranking[l].key)

\* C15: every ranking that is output is ordered by count descending and, among
\* entries of equal count, by the grouping key ascending, whatever the order in
\* which the keys first appear in the input.
C15_RankingsTieBreakByKey ==
    /\ bpc = "done" =>
           /\ RankedByCountThenKey(reports.top_dominios)
           /\ RankedByCountThenKey(reports.top_emails_repetidos)
           /\ RankedByCountThenKey(reports.top_documentos_por_linhas)
           /\ RankedByCountThenKey(reports.top_documentos_por_emails_unicos)
           /\ RankedByCountThenKey(reports.top_contribuintes_por_emails_unicos)
    /\ result.built =>
           /\ RankedByCountThenKey(result.top_domains)
           /\ RankedByCountThenKey(result.repeated_summary)

\* how many batch rows have the normalized e-mail e
RowsOfEmail(e) == Cardinality({ i \in 1..Len(treated) : treated[i].EMAIL_TRATADO = e })

\* C16: an e-mail counts as repeated only when more than one row has it: every
\* e-mail of top_emails_repetidos.csv is non-empty and occurs in more than one
\* input row, and every e-mail of the interactive repeated_summary and
\* repeated_rows has a repetition count above 1.
C16_RepeatedMeansMoreThanOnce ==
    /\ bpc = "done" =>
           \A k \in 1..Len(reports.top_emails_repetidos) :
               LET e == reports.top_emails_repetidos[k]
               IN  /\ e.key # << >>
                   /\ e.n = RowsOfEmail(e.key)
                   /\ RowsOfEmail(e.key) > 1
    /\ result.built =>
           /\ \A k \in 1..Len(result.repeated_summary) : result.repeated_summary[k].n > 1
           /\ \A k \in 1..Len(result.repeated_rows) : result.repeated_rows[k].QTD_REPETICOES_EMAIL > 1

RowsSharingEmail(i) ==
    Cardinality({ j \in 1..Len(result.base) :
                    result.base[j].E_MAIL_NORM = result.base[i].E_MAIL_NORM })

\* C17: in build_analysis a row with a non-empty normalized e-mail has
\* QTD_REPETICOES_EMAIL equal to the number of rows of the whole table with that
\* normalized e-mail (at least 1) and EMAIL_REPETIDO true iff that number is
\* above 1; a row with an empty normalized e-mail has count 0.
C17_RepetitionCount ==
    result.built =>
        \A i \in 1..Len(result.base) :
            LET r == result.base[i]
            IN  /\ r.E_MAIL_NORM # << >> =>
                       /\ r.QTD_REPETICOES_EMAIL = RowsSharingEmail(i)
                       /\ r.QTD_REPETICOES_EMAIL >= 1
                /\ r.E_MAIL_NORM = << >> => r.QTD_REPETICOES_EMAIL = 0
                /\ r.EMAIL_REPETIDO <=> (r.QTD_REPETICOES_EMAIL > 1)

\* two rows whose cells differ but normalize to one e-mail (count 2) and a row
\* with no e-mail (count 0)
C17_Witness ==
    /\ result.built
    /\ Len(result.base) = 3
    /\ \E i, j \in 1..3 :
           /\ i # j
           /\ result.base[i].E_MAIL # result.base[j].E_MAIL
           /\ result.base[i].E_MAIL_NORM = result.base[j].E_MAIL_NORM
           /\ result.base[i].QTD_REPETICOES_EMAIL = 2
           /\ result.base[j].EMAIL_REPETIDO
    /\ \E i \in 1..3 : result.base[i].E_MAIL_NORM = << >> /\ result.base[i].QTD_REPETICOES_EMAIL = 0

-----------------------------------------------------------------------------
(* Properties of the failures of the batch run                             *)

\* the input of the run names no file, or names a file without a header row
InputMissing == ~input_file.exists
InputHeaderless == input_file.exists /\ input_file.first_line # "header"

\* C19: the batch run aborts with an error and returns no summary when the
\* input file does not exist or the input CSV has no header row; on every
\* other input it enters the loop, processes every row it reads and returns
\* the summary of the rows processed
C19_AbortsIffMissingOrHeaderless ==
    bpc # "start" =>
        IF InputMissing \/ InputHeaderless
        THEN bpc = "failed" /\ raised # NoError /\ summary = NoSummary
        ELSE /\ bpc \in { "reading", "done" }
             /\ raised = NoError
             /\ total_rows = Len(treated)
             /\ (bpc = "done" => summary = AnalysisSummary)

-----------------------------------------------------------------------------
(* Properties of the dashboard filters                                     *)

\* a free-text search: the stripped, lower-cased text occurs in the row's
\* lower-cased name or in its normalized e-mail; an empty search keeps all
FreeTextHit(row, busca) ==
    LET text == str_lower(str_strip(busca))
    IN  \/ text = << >>
        \/ HasSub(str_lower(row.NOME), text)
        \/ HasSub(row.E_MAIL_NORM, text)

\* the row passes every active filter
SatisfiesFilters(row, active) ==
    /\ (active.origem # Todos => row.ORIGEM = active.origem)
    /\ (active.regiao # Todas => row.REGIAO = active.regiao)
    /\ (active.familia # "Todas" => row.FAMILIA_DOMINIO = active.familia)
    /\ (active.status # "Todos" => row.STATUS_EMAIL = active.status)
    /\ FreeTextHit(row, active.busca)

\* the rows with an e-mail that pass every active filter, in table order
RowsSatisfying(base, active) ==
    SelectSeq(AsSeq([ i \in 1..Len(base) |-> i ]),
              LAMBDA i : base[i].E_MAIL_NORM # << >> /\ SatisfiesFilters(base[i], active))

\* C18: whatever filters were submitted or cleared, the table is the one read
\* from the upload, the analysis result and the exported tables are those of
\* that table under the selected mapping, and the displayed subset is exactly
\* the rows with an e-mail that satisfy every active filter
C18_FiltersOnlySelectRows ==
    (upload # NoUpload /\ read_table(upload).error = NoError /\ mapping.email # NoColumn) =>
        /\ df = read_table(upload).df
        /\ result = build_analysis(df, mapping)
        /\ exports = export_tables(build_analysis(df, mapping))
        /\ filtered = RowsSatisfying(result.base, session_filters.filters)

-----------------------------------------------------------------------------
(* Properties of the failures of the interactive variant                   *)

\* the name ends in none of the extensions read_table reads, in any case
UnsupportedExtension(name) ==
    ~\E ext \in { << ".", "c", "s", "v" >>, << ".", "x", "l", "s", "x" >>, << ".", "x", "l", "s" >> } :
        EndsWith(str_lower(name), ext)

\* the upload cannot be turned into a table
UploadFails == UnsupportedExtension(upload.name) \/ ~upload.readable

\* C20: an analysis exists only for an upload that was read with an e-mail
\* column selected; an upload with an unsupported extension or an unreadable
\* file ends the render with the read error and no analysis, a mapping without
\* e-mail column ends it with the prompt and no analysis, and in neither case
\* does an exception leave main
C20_AnalysisOnlyAfterReadAndEmail ==
    /\ (result # NoResult =>
            upload # NoUpload /\ ~UploadFails /\ mapping.email # NoColumn)
    /\ (upload # NoUpload /\ UploadFails =>
            ui = "read_error" /\ df = NoTable /\ result = NoResult /\ exports = NoExports)
    /\ (upload # NoUpload /\ ~UploadFails /\ mapping.email = NoColumn =>
            ui = "email_prompt" /\ result = NoResult /\ exports = NoExports)

\* an upload named base.csv.txt was refused, and left no analysis
C20_Witness ==
    /\ upload # NoUpload
    /\ UnsupportedExtension(upload.name)
    /\ upload.readable
    /\ ui = "read_error"
    /\ result = NoResult

-----------------------------------------------------------------------------
(* Properties of the batch run: malformed e-mails                          *)

\* the rows read so far whose normalized e-mail is empty, and those whose
\* non-empty normalized e-mail does not have the shape of an address
MissingRows == { i \in 1..Len(treated) : TrimLower(RawEmail(treated[i].row)) = << >> }
MalformedRows ==
    { i \in 1..Len(treated) :
        /\ TrimLower(RawEmail(treated[i].row)) # << >>
        /\ ~HasEmailShape(TrimLower(RawEmail(treated[i].row))) }

-----------------------------------------------------------------------------
(* Properties of the status override order                                 *)

\* the rows of the analysed table that are repeated and fail the format check
RepeatedInvalidRows ==
    { i \in 1..Len(result.base) :
        /\ result.base[i].E_MAIL_NORM # << >>
        /\ ~result.base[i].EMAIL_FORMATO_VALIDO
        /\ result.base[i].QTD_REPETICOES_EMAIL > 1 }

-----------------------------------------------------------------------------
(* Properties of the two format checks of build_analysis                   *)

\* C23: in build_analysis the reason formato_invalido and the column
\* EMAIL_FORMATO_VALIDO agree on every row with a non-empty normalized e-mail;
\* hence every row of invalid_rows is a row of suspect_rows and
\* invalid_format_rows <= suspect_rows
C23_FormatChecksAgree ==
    result.built =>
        /\ \A i \in 1..Len(result.base) :
               result.base[i].E_MAIL_NORM # << >> =>
                   (("formato_invalido" \in SeqToSet(result.base[i].SUSPEITO_RAZOES))
                        <=> ~result.base[i].EMAIL_FORMATO_VALIDO)
        /\ SeqToSet(result.invalid_rows) \subseteq SeqToSet(result.suspect_rows)
        /\ result.metrics.invalid_format_rows <= result.metrics.suspect_rows

-----------------------------------------------------------------------------
(* Properties of guess_columns: one column per role                        *)

\* C24: guess_columns never proposes the same column for two roles: scoring
\* an unresolved role looks only at columns no other role holds, and the
\* defaults of source and region pick a column no other role holds
C24_RolesHaveDistinctColumns ==
    df # NoTable =>
        \A r1 \in Roles, r2 \in Roles :
            (r1 # r2 /\ mapping[r1] # NoColumn) => mapping[r1] # mapping[r2]

-----------------------------------------------------------------------------
(* Properties of the batch rankings: the cut                               *)

Min(a, b) == IF a < b THEN a ELSE b

\* the distinct non-empty keys of each ranking, from the rows written
EmailKeys == { treated[i].EMAIL_TRATADO : i \in 1..Len(treated) } \ { << >> }
DocumentKeys == { TrimmedCell(treated[i].row.CPF_CNPJ) : i \in 1..Len(treated) } \ { << >> }
DocumentKeysWithEmail ==
    { TrimmedCell(treated[i].row.CPF_CNPJ) : i \in ValidTreatedRows } \ { << >> }
TaxpayerKeysWithEmail ==
    { TrimmedCell(treated[i].row.NOME_CONTRIBUINTE) : i \in ValidTreatedRows } \ { << >> }

\* C25: each top-20 report of a finished batch run holds exactly
\* min(20, number of distinct non-empty keys) rows, whether or not an empty
\* key is among the highest counts
C25_RankingsHoldTwentyKeys ==
    bpc = "done" =>
        /\ Len(reports.top_emails_repetidos) = Min(TopN, Cardinality(EmailKeys))
        /\ Len(reports.top_documentos_por_linhas) = Min(TopN, Cardinality(DocumentKeys))
        /\ Len(reports.top_documentos_por_emails_unicos)
               = Min(TopN, Cardinality(DocumentKeysWithEmail))
        /\ Len(reports.top_contribuintes_por_emails_unicos)
               = Min(TopN, Cardinality(TaxpayerKeysWithEmail))

-----------------------------------------------------------------------------
(* Properties of the failures of the batch run: the output directory       *)

\* C26: when the batch run fails because the input file is missing or the
\* CSV has no header, the output directory is as it was before the run: no
\* report file was created and the dados_tratados.csv of an earlier run is
\* unchanged
C26_FailureLeavesOutputAlone ==
    bpc = "failed" =>
        /\ out_dir.now = out_dir.before
        /\ reports = NoReports

-----------------------------------------------------------------------------
(* Properties of the batch command line                                    *)

\* C27: with --arquivo given, the run analyzes that file whatever the working
\* directory holds: it fails only if the file is missing or has no line, and a
\* working directory without a CSV file does not make it fail
C27_ExplicitInputIgnoresWorkingDirectory ==
    (bpc # "start" /\ input_file.given) =>
        (bpc = "failed" <=> (~input_file.exists \/ input_file.first_line = "none"))

-----------------------------------------------------------------------------
(* Properties of the stored filter state                                   *)

Stored(filters) == [ stored |-> TRUE, filters |-> filters ]

\* C28 as stated: the first render of the session having initialized the
\* stored filters, a render with "Limpar" sets them to the defaults, one with
\* "Aplicar filtros" to the form's choices, and every other render leaves
\* them as they are
C28_OnlyFormActionsChangeStoredFilters ==
    [][ /\ (submitted'.button = "clear" => session_filters' = Stored(default_filters))
        /\ (submitted'.button = "apply" => session_filters' = Stored(submitted'.choices))
        /\ (submitted'.button = "none" => session_filters' = session_filters) ]_vars

\* C28, amended: the stored filters are initialized to the defaults by the
\* first render that reaches the filter form (a file was read and an e-mail
\* column is selected), not by the first render of the session; a render with
\* "Limpar" sets them to the defaults, one with "Aplicar filtros" to the
\* form's choices, and every other render, a new upload included, leaves them
\* unchanged
C28_StoredFiltersChangeByFormOrFirstDashboard ==
    [][ /\ (submitted'.button = "clear" => session_filters' = Stored(default_filters))
        /\ (submitted'.button = "apply" => session_filters' = Stored(submitted'.choices))
        /\ (submitted'.button = "none" =>
               IF session_filters = NoFilters /\ result' # NoResult
               THEN session_filters' = Stored(default_filters)
               ELSE session_filters' = session_filters) ]_vars

\* filters submitted on one table are still stored, unchanged, while another
\* table is displayed: their origin is not an origin of the table
C28_Witness ==
    /\ ui = "dashboard"
    /\ session_filters # NoFilters
    /\ session_filters.filters.busca # << >>
    /\ session_filters.filters.origem \notin ({ Todos } \cup origem_opts(result.base))


\* ---------------------------------------------------------------------
\* C29  At every render that shows the dashboard, each select filter
\* that is applied to the table (origin, region, domain family, status)
\* is its 'all' sentinel or one of the options computed from the table
\* currently loaded, i.e. the value the select box displays.
\* ---------------------------------------------------------------------
C29_AppliedFiltersAreOfferedOptions ==
    (ui = "dashboard") =>
        /\ session_filters.filters.origem \in ({ Todos } \cup origem_opts(result.base))
        /\ session_filters.filters.regiao \in ({ Todas } \cup regiao_opts(result.base))
        /\ session_filters.filters.familia \in ({ "Todas" } \cup fam_opts(result.base))
        /\ session_filters.filters.status \in ({ "Todos" } \cup status_opts(result.base))


\* ---------------------------------------------------------------------
\* C30  The rows the dashboard displays all have a non-empty normalized
\* e-mail: 'Total de linhas' equals 'Total de e-mails', no row with the
\* status "Sem email" is displayed or counted by the status chart, and
\* under the default filters 'Total de linhas' is metrics.emails_total,
\* not metrics.total_rows.
\* ---------------------------------------------------------------------
NoFilterActive ==
    /\ session_filters.filters.origem = Todos
    /\ session_filters.filters.regiao = Todas
    /\ session_filters.filters.familia = "Todas"
    /\ session_filters.filters.status = "Todos"
    /\ str_strip(session_filters.filters.busca) = << >>

C30_DashboardCountsOnlyRowsWithEmail ==
    (ui = "dashboard") =>
        /\ \A k \in 1..Len(filtered) : result.base[filtered[k]].E_MAIL_NORM # << >>
        /\ filtered_total_rows(filtered) = filtered_total_emails(result.base, filtered)
        /\ "Sem email" \notin status_counts(result.base, filtered)
        /\ NoFilterActive => filtered_total_rows(filtered) = result.metrics.emails_total

C30_Witness ==
    /\ ui = "dashboard"
    /\ NoFilterActive
    /\ filtered # << >>
    /\ result.metrics.emails_total # result.metrics.total_rows
    /\ \E i \in 1..Len(result.base) : result.base[i].STATUS_EMAIL = "Sem email"

====
